---- MODULE Spec2Model ----
(***************************************************************************)
(* Model of the PDF structure-inference core of src/pdf_extractor.py:      *)
(* reading-order zone segmentation, the nine-way zone classifier, table    *)
(* validation, the table-extraction strategy chain and the page loop of    *)
(* AdvancedPDFExtractor.extract.                                           *)
(*                                                                         *)
(* Coordinates are integers.  Scores are integers in hundredths (0.15 is   *)
(* 15), so the clamp to [0,1] is the clamp to 0..100.                      *)
(***************************************************************************)
EXTENDS Integers, Sequences, FiniteSets, TLC

VARIABLES
    text_blocks,     \* detect_reading_order_zones: the input list of TextBlocks
    zones,           \* detect_reading_order_zones: the returned list of zones
    zpc,             \* "input" before the call, "done" after it
    czone,           \* classify_zone_advanced: the zone handed to the classifier
    classification,  \* classify_zone_advanced: the returned record (NoValue before)
    cpc,             \* "input" before the call, "done" after it
    table_data,      \* _validate_table: the raw grid handed in
    validated,       \* _validate_table: the returned table, NoValue for None
    vpc,             \* "input" before the call, "done" after it
    PDFPLUMBER_AVAILABLE,  \* module flag set by the import of pdfplumber
    CAMELOT_AVAILABLE,     \* module flag set by the import of camelot
    total_pages,     \* extract: len(doc)
    page_num,        \* extract: the loop variable, 0-based
    epc,             \* extract: the statement the call stands at
    pages_data,      \* extract: the accumulated page records
    progress_calls,  \* the fractions handed to the progress callback so far
    page_zones,      \* extract: the zones of the page in progress
    tables,          \* _extract_tables_advanced: the local list of tables
    strategy,        \* _extract_tables_advanced: index of the pdfplumber variant
    attempts,        \* history: the strategies run for the page in progress
    log,             \* the table messages logged for the page in progress
    img_info,        \* _classify_image: the argument (area, aspect_ratio)
    image_type,      \* _classify_image: the returned role
    ipc,             \* "input" before the call, "done" after it
    type_counts,     \* _infer_document_type: Counter(zone_types)
    table_count,     \* _infer_document_type: the argument
    image_count,     \* _infer_document_type: the argument
    document_type,   \* _infer_document_type: the returned archetype
    dpc,              \* "input" before the call, "done" after it
    page_width,      \* SmartLayoutDetector.width of the page
    record_zones,    \* extract: the zones after the classification loop, as put in the page record
    zones_rerun,     \* the zones of a second run of detect_reading_order_zones
    rpc,              \* extract: "input", "classified" after the loop of lines 580-582, "rerun" after the second segmentation
    hf_blocks,       \* _detect_header_footer: the text_blocks argument
    page_height,     \* _detect_header_footer: the page_height argument
    header_footer,   \* _detect_header_footer: the returned dict
    hpc,              \* "input" before the call, "done" after it
    lay_blocks,      \* the text blocks of the page (_extract_text_blocks_rich)
    drawings,        \* the items of page.get_drawings()
    image_list,      \* page.get_images(full=True)
    lay_page,        \* page.rect: width and height
    layout,          \* the layout part of the page record
    lpc,              \* "input", then "done", or "raised" when an exception left the analysis
    lines_dict,         \* _detect_tables_by_structure: lines_dict in ascending y, each band in ascending x
    structure_tables,   \* _detect_tables_by_structure: the returned tables
    mpc,              \* "input" before the call, "done" after it
    grid_blocks,     \* detect_grid_system: the text_blocks argument
    grid_system, \* detect_grid_system: the returned dict
    gpc,              \* "input" before the call, "done" after it
    doc_pages,       \* analyze_document_structure: the pages_data argument
    structure,       \* analyze_document_structure: the returned dict
    spc,              \* "input" before the call, "done" after it
    pdf_file,        \* ModernPDFConverterApp.pdf_file: the selected file, "none" for None
    app_pages_data,  \* ModernPDFConverterApp.pages_data: "unset", "empty", or the file the pages were extracted from
    is_processing,   \* ModernPDFConverterApp.is_processing
    workers,         \* the live worker threads, each with its position
    html_files,      \* the HTML files written by _generate_html_thread
    started,          \* the number of workers started so far
    stats,           \* BatchConverter.stats: total, success, failed, skipped
    pdf_files,       \* convert_batch: the pdf_files argument of the running call
    overwrite,       \* convert_batch: the overwrite argument of the running call
    batch_index,     \* convert_batch: the files of the call handled so far
    outputs,         \* the files whose output path exists
    calls,           \* the completed convert_batch calls on the converter
    bpc,              \* "ready" between calls, "loop" inside one
    history_file,    \* the list stored in history.json; an entry is the serial number of its save
    saved,           \* the save_to_history calls made so far
    cleared_at,      \* the value of saved at the last clear_history call
    hispc            \* "ready" once the ConfigManager is constructed

zvars == <<text_blocks, zones, zpc>>

cvars == <<czone, classification, cpc>>

vvars == <<table_data, validated, vpc>>

evars == <<PDFPLUMBER_AVAILABLE, CAMELOT_AVAILABLE, total_pages, page_num, epc,
           pages_data, progress_calls, page_zones, tables, strategy, attempts, log>>

ivars == <<img_info, image_type, ipc>>

dvars == <<type_counts, table_count, image_count, document_type, dpc>>

rvars == <<page_width, record_zones, zones_rerun, rpc>>

hvars == <<hf_blocks, page_height, header_footer, hpc>>

lvars == <<lay_blocks, drawings, image_list, lay_page, layout, lpc>>

mvars == <<lines_dict, structure_tables, mpc>>

gvars == <<grid_blocks, grid_system, gpc>>

svars == <<doc_pages, structure, spc>>

guivars == <<pdf_file, app_pages_data, is_processing, workers, html_files, started>>

bvars == <<stats, pdf_files, overwrite, batch_index, outputs, calls, bpc>>

hisvars == <<history_file, saved, cleared_at, hispc>>

\* the variables of the calls of the single functions specified further down
pvars == <<ivars, dvars, rvars, hvars, lvars, mvars, gvars, svars, guivars, bvars, hisvars>>

vars == <<zvars, cvars, vvars, evars, pvars>>

NoValue == [none |-> TRUE]

----------------------------------------------------------------------------
(* Generic helpers *)

Min2(a, b) == IF a <= b THEN a ELSE b

Max2(a, b) == IF a >= b THEN a ELSE b

Abs(a) == IF a < 0 THEN -a ELSE a

RECURSIVE SeqsUpTo(_, _)
SeqsUpTo(S, n) ==
    IF n = 0 THEN {<<>>}
    ELSE LET shorter == SeqsUpTo(S, n - 1)
         IN  shorter \cup {Append(s, x) : s \in {t \in shorter : Len(t) = n - 1}, x \in S}

----------------------------------------------------------------------------
(* Bounds and input domains of the zone segmenter *)

MaxBlocks == 3

PageWidths == {400, 600}

BlockX0s == {0, 80}

BlockWidths == {40, 120}

BlockY0s == {0, 12, 28, 60}

BlockHeights == {10}

\* TextBlock (src/pdf_extractor.py:33-66), reduced to its bounding box.
TextBlock ==
    {[x0 |-> x, y0 |-> y, x1 |-> x + w, y1 |-> y + h] :
        x \in BlockX0s, y \in BlockY0s, w \in BlockWidths, h \in BlockHeights}

BlockWidth(b) == b.x1 - b.x0

----------------------------------------------------------------------------
(* SmartLayoutDetector.detect_reading_order_zones *)

vertical_tolerance == 15

\* horizontal_tolerance = self.width * 0.15, kept as a ratio of hundredths
horizontal_tolerance_pct == 15

\* sorted(text_blocks, key=lambda b: (b.y0, b.x0)): the key comparison
KeyLE(a, b) == a.y0 < b.y0 \/ (a.y0 = b.y0 /\ a.x0 <= b.x0)

\* insert b behind every element whose key is <= b's key (the sort is stable)
RECURSIVE InsertBlock(_, _)
InsertBlock(b, s) ==
    IF s = <<>> THEN <<b>>
    ELSE IF KeyLE(s[Len(s)], b) THEN Append(s, b)
    ELSE Append(InsertBlock(b, SubSeq(s, 1, Len(s) - 1)), s[Len(s)])

\* sorted() left out: the blocks are walked in the order they were given
UnsortedBlocks(s) == s

RECURSIVE SortedBlocks(_)
SortedBlocks(s) ==
    IF s = <<>> THEN <<>>
    ELSE InsertBlock(s[Len(s)], SortedBlocks(SubSeq(s, 1, Len(s) - 1)))

\* the overlap measured against the wider of the two blocks
OverlapAboveHalfOfWider(block1, block2) ==
    LET overlap_start == Max2(block1.x0, block2.x0)
        overlap_end   == Min2(block1.x1, block2.x1)
        overlap       == overlap_end - overlap_start
        max_width     == Max2(BlockWidth(block1), BlockWidth(block2))
    IN  IF overlap_end <= overlap_start THEN FALSE
        ELSE IF max_width > 0 THEN 2 * overlap > max_width
        ELSE FALSE

\* _calculate_horizontal_overlap(block1, block2) > 0.5
OverlapAboveHalf(block1, block2) ==
    LET overlap_start == Max2(block1.x0, block2.x0)
        overlap_end   == Min2(block1.x1, block2.x1)
        overlap       == overlap_end - overlap_start
        min_width     == Min2(BlockWidth(block1), BlockWidth(block2))
    IN  IF overlap_end <= overlap_start THEN FALSE
        ELSE IF min_width > 0 THEN 2 * overlap > min_width
        ELSE FALSE

\* the same decision with the second vertical tolerance at 60 units
SameZoneWideGap(last_block, block, width) ==
    LET vertical_gap == block.y0 - last_block.y1
    IN  \/ vertical_gap < vertical_tolerance /\ OverlapAboveHalf(last_block, block)
        \/ /\ vertical_gap < vertical_tolerance * 4
           /\ 100 * Abs(block.x0 - last_block.x0) < horizontal_tolerance_pct * width

\* the decision of lines 191-198: does block join the zone ending in last_block
SameZone(last_block, block, width) ==
    LET vertical_gap == block.y0 - last_block.y1
    IN  \/ vertical_gap < vertical_tolerance /\ OverlapAboveHalf(last_block, block)
        \/ /\ vertical_gap < vertical_tolerance * 2
           /\ 100 * Abs(block.x0 - last_block.x0) < horizontal_tolerance_pct * width

SetMin(S) == CHOOSE m \in S : \A x \in S : m <= x

SetMax(S) == CHOOSE m \in S : \A x \in S : m >= x

\* _create_zone_from_blocks: bounding box and block list of one zone
CreateZoneFromBlocks(blocks) ==
    LET zx0 == SetMin({blocks[i].x0 : i \in DOMAIN blocks})
        zy0 == SetMin({blocks[i].y0 : i \in DOMAIN blocks})
        zx1 == SetMax({blocks[i].x1 : i \in DOMAIN blocks})
        zy1 == SetMax({blocks[i].y1 : i \in DOMAIN blocks})
    IN  [x0 |-> zx0, y0 |-> zy0, x1 |-> zx1, y1 |-> zy1,
         width |-> zx1 - zx0, height |-> zy1 - zy0,
         blocks |-> blocks, block_count |-> Len(blocks)]

\* the flush after the loop (lines 205-206)
FlushNoLast(zs, current_zone) == zs

FlushLast(zs, current_zone) ==
    IF current_zone # <<>> THEN Append(zs, CreateZoneFromBlocks(current_zone)) ELSE zs

\* the loop of lines 184-203 over the sorted blocks, from index i
RECURSIVE ZoneLoop(_, _, _, _, _)
ZoneLoop(sorted, i, zs, current_zone, width) ==
    IF i > Len(sorted) THEN FlushLast(zs, current_zone)
    ELSE LET block == sorted[i]
         IN  IF current_zone = <<>>
             THEN ZoneLoop(sorted, i + 1, zs, <<block>>, width)
             ELSE IF SameZone(current_zone[Len(current_zone)], block, width)
             THEN ZoneLoop(sorted, i + 1, zs, Append(current_zone, block), width)
             ELSE ZoneLoop(sorted, i + 1,
                           Append(zs, CreateZoneFromBlocks(current_zone)),
                           <<block>>, width)

DetectReadingOrderZones(blocks, width) ==
    IF blocks = <<>> THEN <<>>
    ELSE ZoneLoop(SortedBlocks(blocks), 1, <<>>, <<>>, width)

----------------------------------------------------------------------------
(* IntelligentContentAnalyzer: features, the nine scores, the selection *)

\* a ratio num/den with den > 0, compared without division
RatioGT(r, a, b) == r.num * b > a * r.den

RatioLT(r, a, b) == r.num * b < a * r.den

\* _extract_features: the text is given by the measurements the code takes of it
ExtractFeatures(zone) ==
    LET text == zone.text
    IN  [width             |-> zone.width,
         height            |-> zone.height,
         area              |-> zone.width * zone.height,
         aspect_ratio      |-> IF zone.height > 0
                               THEN [num |-> zone.width, den |-> zone.height]
                               ELSE [num |-> 0, den |-> 1],
         text_length       |-> text.length,
         word_count        |-> text.words,
         line_count        |-> text.lines,
         avg_line_length   |-> [num |-> text.length, den |-> Max2(text.lines, 1)],
         avg_font_size     |-> zone.avg_font_size,
         max_font_size     |-> zone.max_font_size,
         has_bold          |-> zone.has_bold,
         has_italic        |-> zone.has_italic,
         block_count       |-> zone.block_count,
         has_numbers       |-> text.has_numbers,
         uppercase_ratio   |-> [num |-> text.upper, den |-> Max2(text.length, 1)],
         has_list_markers  |-> text.has_list_markers,
         has_table_words   |-> text.has_table_words,
         is_short          |-> text.length < 100,
         is_long           |-> text.length > 500,
         starts_with_number |-> text.starts_with_number,
         is_all_caps       |-> text.isupper /\ text.length > 3,
         has_colon         |-> text.has_colon]

(* Scores are Python floats.  A score is written here as an integer code that
   keeps the order of the doubles: 100 * hundredths for the double nearest to the
   decimal (0.15 is 1500), and +k / -k for the k-th double above / below it that
   the scorers' sums reach (0.7500000000000001 is 7501, 0.44999999999999996 is
   4499).  FloatAdd is IEEE-754 double addition on these codes: exact in the
   code except for the sums listed in InexactSum. *)
InexactSum ==
    (<<-1999, -20>> :> -4000) @@ (<<-999, -20>> :> -3000) @@ (<<-499, -20>> :> -2500)
    @@ (<<1, -20>> :> -1998) @@ (<<1000, -30>> :> -1999) @@ (<<1499, -20>> :> -502)
    @@ (<<1500, -20>> :> -501) @@ (<<2000, -30>> :> -999) @@ (<<2000, 10>> :> 3001)
    @@ (<<2499, -20>> :> 498) @@ (<<2500, -30>> :> -499) @@ (<<2500, -20>> :> 499)
    @@ (<<3000, -20>> :> 999) @@ (<<3000, 15>> :> 4499) @@ (<<3500, -30>> :> 499)
    @@ (<<3500, -20>> :> 1499) @@ (<<3500, 10>> :> 4499) @@ (<<4000, -30>> :> 1001)
    @@ (<<4000, 20>> :> 6001) @@ (<<4499, 15>> :> 6000) @@ (<<4501, -20>> :> 2502)
    @@ (<<5500, -30>> :> 2501) @@ (<<5500, -20>> :> 3501) @@ (<<5500, 15>> :> 7001)
    @@ (<<6000, -20>> :> 3999) @@ (<<6001, -30>> :> 3002) @@ (<<6001, 20>> :> 8000)
    @@ (<<6500, -30>> :> 3501) @@ (<<6500, 20>> :> 8501) @@ (<<7000, -30>> :> 3999)
    @@ (<<7000, -20>> :> 4999) @@ (<<7001, -20>> :> 5000) @@ (<<7001, 10>> :> 8000)
    @@ (<<7002, -20>> :> 5001) @@ (<<7501, -20>> :> 5500) @@ (<<8000, -20>> :> 6001)
    @@ (<<8501, -30>> :> 5500) @@ (<<8501, 15>> :> 10000) @@ (<<9000, -30>> :> 6001)
    @@ (<<9001, -20>> :> 7002) @@ (<<10001, -30>> :> 7002)

FloatAdd(score, w) ==
    IF <<score, w>> \in DOMAIN InexactSum THEN InexactSum[<<score, w>>]
    ELSE score + 100 * w

\* if c: score += w   (w in hundredths, negative for -=)
Plus(score, c, w) == IF c THEN FloatAdd(score, w) ELSE score

\* max(0, min(1, score))
ClampNoCeiling(score) == Max2(0, score)

Clamp01(score) == Max2(0, Min2(10000, score))

\* the title score without the weight for bold text
ScoreTitleNoBold(f) ==
    LET s1 == IF f.max_font_size >= 24 THEN FloatAdd(0, 40)
              ELSE IF f.max_font_size >= 20 THEN FloatAdd(0, 30)
              ELSE IF f.max_font_size >= 16 THEN FloatAdd(0, 20) ELSE 0
        s2 == Plus(s1, f.word_count <= 10, 20)
        s4 == Plus(s2, f.is_all_caps, 15)
        s5 == Plus(s4, f.height > 40, 10)
        s6 == Plus(s5, f.word_count > 20, -30)
        s7 == Plus(s6, f.line_count > 2, -20)
    IN  Clamp01(s7)

ScoreTitle(f) ==
    LET s1 == IF f.max_font_size >= 24 THEN FloatAdd(0, 40)
              ELSE IF f.max_font_size >= 20 THEN FloatAdd(0, 30)
              ELSE IF f.max_font_size >= 16 THEN FloatAdd(0, 20) ELSE 0
        s2 == Plus(s1, f.word_count <= 10, 20)
        s3 == Plus(s2, f.has_bold, 15)
        s4 == Plus(s3, f.is_all_caps, 15)
        s5 == Plus(s4, f.height > 40, 10)
        s6 == Plus(s5, f.word_count > 20, -30)
        s7 == Plus(s6, f.line_count > 2, -20)
    IN  Clamp01(s7)

ScoreSubtitle(f) ==
    LET s1 == Plus(0, 14 <= f.max_font_size /\ f.max_font_size < 20, 30)
        s2 == Plus(s1, f.has_bold, 20)
        s3 == Plus(s2, 3 <= f.word_count /\ f.word_count <= 15, 20)
        s4 == Plus(s3, f.starts_with_number, 15)
        s5 == Plus(s4, RatioGT(f.uppercase_ratio, 3, 10), 15)
    IN  Clamp01(s5)

ScoreHeader(f) ==
    LET s1 == Plus(0, f.has_bold, 30)
        s2 == Plus(s1, f.starts_with_number, 20)
        s3 == Plus(s2, 13 <= f.max_font_size /\ f.max_font_size <= 18, 20)
        s4 == Plus(s3, f.word_count <= 12, 15)
        s5 == Plus(s4, f.has_colon, 15)
    IN  Clamp01(s5)

ScoreParagraph(f) ==
    LET s1 == Plus(3000, f.word_count >= 15, 20)
        s2 == Plus(s1, f.line_count >= 2, 15)
        s3 == Plus(s2, 10 <= f.avg_font_size /\ f.avg_font_size <= 13, 20)
        s4 == Plus(s3, ~f.has_bold /\ ~f.is_all_caps, 15)
    IN  Clamp01(s4)

ScoreList(f) ==
    LET s1 == Plus(0, f.has_list_markers, 50)
        s2 == Plus(s1, f.line_count >= 3, 20)
        s3 == Plus(s2, f.starts_with_number, 15)
        s4 == Plus(s3, RatioGT(f.avg_line_length, 50, 1)
                       /\ RatioLT(f.avg_line_length, 200, 1), 15)
    IN  Clamp01(s4)

ScoreTable(f) ==
    LET s1 == Plus(0, f.has_table_words, 25)
        s2 == Plus(s1, f.block_count >= 6, 25)
        s3 == Plus(s2, f.has_numbers, 15)
        s4 == Plus(s3, RatioGT(f.aspect_ratio, 1, 2) /\ RatioLT(f.aspect_ratio, 2, 1), 15)
        s5 == Plus(s4, f.line_count >= 4, 10)
        s6 == Plus(s5, f.block_count >= 10, 10)
    IN  Clamp01(s6)

ScoreCard(f) ==
    LET s1 == Plus(0, RatioGT(f.aspect_ratio, 7, 10) /\ RatioLT(f.aspect_ratio, 15, 10), 30)
        s2 == Plus(s1, 5000 < f.area /\ f.area < 100000, 20)
        s3 == Plus(s2, f.is_short, 20)
        s4 == Plus(s3, f.has_bold, 15)
        s5 == Plus(s4, f.word_count <= 50, 15)
    IN  Clamp01(s5)

\* line 483 tests the keys of the feature dict ('figura' in f), never its text:
\* no feature is named figura, tabela or fonte:, so the last term is never added
ScoreCaption(f) ==
    LET s1 == Plus(0, f.avg_font_size < 10, 30)
        s2 == Plus(s1, f.is_short, 20)
        s3 == Plus(s2, f.has_italic, 20)
        s4 == Plus(s3, f.word_count <= 20, 15)
        s5 == Plus(s4, FALSE, 15)
    IN  Clamp01(s5)

ScoreFootnote(f) ==
    LET s1 == Plus(0, f.avg_font_size < 9, 40)
        s2 == Plus(s1, f.starts_with_number, 20)
        s3 == Plus(s2, f.is_short, 20)
        s4 == Plus(s3, f.word_count <= 30, 20)
    IN  Clamp01(s4)

\* the insertion order of the scores dict (lines 303-313)
ScoreOrder ==
    <<"title", "subtitle", "header", "paragraph", "list",
      "table_like", "card", "caption", "footnote">>

Scores(f) ==
    [title      |-> ScoreTitle(f),
     subtitle   |-> ScoreSubtitle(f),
     header     |-> ScoreHeader(f),
     paragraph  |-> ScoreParagraph(f),
     list       |-> ScoreList(f),
     table_like |-> ScoreTable(f),
     card       |-> ScoreCard(f),
     caption    |-> ScoreCaption(f),
     footnote   |-> ScoreFootnote(f)]

\* max(scores.items(), key=lambda x: x[1]): the first item, in the dict's order,
\* that no other item exceeds
BestTypeLast(scores) ==
    LET i == CHOOSE k \in DOMAIN ScoreOrder :
                 /\ \A j \in DOMAIN ScoreOrder : scores[ScoreOrder[j]] <= scores[ScoreOrder[k]]
                 /\ \A j \in DOMAIN ScoreOrder :
                        j > k => scores[ScoreOrder[j]] < scores[ScoreOrder[k]]
    IN  ScoreOrder[i]

BestType(scores) ==
    LET i == CHOOSE k \in DOMAIN ScoreOrder :
                 /\ \A j \in DOMAIN ScoreOrder : scores[ScoreOrder[j]] <= scores[ScoreOrder[k]]
                 /\ \A j \in DOMAIN ScoreOrder :
                        j < k => scores[ScoreOrder[j]] < scores[ScoreOrder[k]]
    IN  ScoreOrder[i]

ClassifyZoneAdvanced(zone) ==
    LET features == ExtractFeatures(zone)
        scores   == Scores(features)
        best     == BestType(scores)
    IN  [type |-> best, confidence |-> scores[best],
         scores |-> scores, features |-> features]

----------------------------------------------------------------------------
(* Input domain of the classifier: zones as _create_zone_from_blocks leaves
   them, the text given by what _extract_features measures of it *)

\* <<width, height>> of a zone
ZoneSizes == {<<200, 10>>, <<100, 100>>, <<90, 60>>, <<400, 300>>}

\* <<avg_font_size, max_font_size>> of a zone: the average is at most the maximum
FontPairs ==
    {<<8, 8>>, <<8, 16>>, <<11, 11>>, <<11, 16>>, <<11, 28>>, <<16, 16>>, <<22, 22>>, <<28, 28>>}

WordCounts == {2, 8, 12, 15, 25, 60}

LineCounts == {1, 2, 3, 4}

TextLengths == {60, 120}

BlockCounts == {1, 6, 10}

\* a text: length in characters, words, lines, uppercase characters, and the flags
\* of the patterns the features test.  Every line holds a word, words are separated
\* by one character at least, text.isupper() needs an uppercase character, and a
\* leading numeral is a digit.
ZoneTexts ==
    {t \in [length : TextLengths, words : WordCounts, lines : LineCounts,
            upper : {0, 1}, isupper : BOOLEAN, has_numbers : BOOLEAN,
            starts_with_number : BOOLEAN, has_list_markers : BOOLEAN,
            has_table_words : BOOLEAN, has_colon : BOOLEAN] :
        /\ t.lines <= t.words
        /\ 2 * t.words - 1 <= t.length
        /\ t.isupper => t.upper > 0
        /\ t.starts_with_number => t.has_numbers}

\* upper = 1 stands for a text half of whose characters are uppercase
TextOf(t) == [t EXCEPT !.upper = IF t.upper = 1 THEN t.length \div 2 ELSE 0]

ClassifierZone(sz, fp, b, i, n, t) ==
    [width |-> sz[1], height |-> sz[2],
     avg_font_size |-> fp[1], max_font_size |-> fp[2],
     has_bold |-> b, has_italic |-> i, block_count |-> n, text |-> TextOf(t)]

----------------------------------------------------------------------------
(* AdvancedPDFExtractor._validate_table *)

MaxRows == 3

RowWidths == 0..2

\* a cell None, as pdfplumber gives for an empty cell
NoneCell == "<None>"

RawCells == {"", " ", "a ", NoneCell}

RawRows == UNION {[1..n -> RawCells] : n \in RowWidths}

\* str(cell).strip() on the cells of the domain
StrStrip(cell) ==
    IF cell = NoneCell THEN "None"
    ELSE IF cell = " " THEN ""
    ELSE IF cell = "a " THEN "a"
    ELSE cell

\* any(str(cell).strip() for cell in row)
AnyCell(row) == \E i \in DOMAIN row : StrStrip(row[i]) # ""

\* the rows stripped, the blank ones kept
CleanedRowsKeepBlank(data) ==
    [k \in DOMAIN data |-> [i \in DOMAIN data[k] |-> StrStrip(data[k][i])]]

\* lines 795-799: the non-blank rows, their cells stripped
RECURSIVE CleanedRows(_)
CleanedRows(data) ==
    IF data = <<>> THEN <<>>
    ELSE IF AnyCell(data[1])
         THEN <<[i \in DOMAIN data[1] |-> StrStrip(data[1][i])]>> \o CleanedRows(Tail(data))
         ELSE CleanedRows(Tail(data))

\* lines 814-817: extend with '' or cut to num_cols
FitRowNoCut(row, num_cols) ==
    IF Len(row) < num_cols THEN row \o [i \in 1..(num_cols - Len(row)) |-> ""]
    ELSE row

FitRow(row, num_cols) ==
    IF Len(row) < num_cols THEN row \o [i \in 1..(num_cols - Len(row)) |-> ""]
    ELSE IF Len(row) > num_cols THEN SubSeq(row, 1, num_cols)
    ELSE row

ValidateTable(data) ==
    IF data = <<>> \/ Len(data) < 2 THEN NoValue
    ELSE LET cleaned_rows == CleanedRows(data)
         IN  IF Len(cleaned_rows) < 2 THEN NoValue
             ELSE LET headers  == cleaned_rows[1]
                      rows     == Tail(cleaned_rows)
                      num_cols == Len(headers)
                  IN  [headers |-> headers,
                       rows    |-> [i \in DOMAIN rows |-> FitRow(rows[i], num_cols)]]

----------------------------------------------------------------------------
(* AdvancedPDFExtractor._extract_tables_advanced and the manual fallback *)

MaxExtracted == 2

MaxBands == 3

\* len(doc) of the documents extracted
PageCounts == 0..2

\* raw grids a backend hands back
GoodGrid == << <<"a ", "a ">>, <<"a ", " ">> >>

BlankBodyGrid == << <<"a ">>, <<" ">> >>

EmptyGrid == <<>>

\* table.accuracy of a camelot table, in tenths of a percent
CamelotAccuracies == {875}

\* one table of a backend's answer; a malformed one makes its processing raise
BackendItems ==
    {[malformed |-> FALSE, grid |-> g, accuracy |-> a] :
        g \in {GoodGrid, BlankBodyGrid, EmptyGrid}, a \in CamelotAccuracies}
    \cup {[malformed |-> TRUE, grid |-> <<>>, accuracy |-> 0]}

\* the answer of one backend call: it raises, or returns a list of tables
BackendOutcomes ==
    {[raises |-> TRUE, extracted |-> <<>>]}
    \cup {[raises |-> FALSE, extracted |-> e] : e \in SeqsUpTo(BackendItems, MaxExtracted)}

PdfplumberMethods == <<"pdfplumber_lines", "pdfplumber_lines_strict", "pdfplumber_text">>

\* the dict appended to tables (lines 712-719, 744-751, 767-774)
TableRecord(method, v, quality) ==
    [method |-> method, headers |-> v.headers, rows |-> v.rows, quality |-> quality,
     columns |-> Len(v.headers), rows_count |-> Len(v.rows)]

\* round(table.accuracy) in place of int(table.accuracy)
RoundOfAccuracy(accuracy) == (accuracy + 5) \div 10

\* int(table.accuracy)
IntOfAccuracy(accuracy) == accuracy \div 10

\* lines 708-719: the loop over the tables of one pdfplumber variant
RECURSIVE AcceptPdfplumber(_, _, _)
AcceptPdfplumber(extracted, acc, method) ==
    IF extracted = <<>> THEN [tables |-> acc, raised |-> FALSE]
    ELSE LET table == extracted[1]
         IN  IF table.malformed THEN [tables |-> acc, raised |-> TRUE]
             ELSE IF table.grid # <<>> /\ Len(table.grid) > 1
                     /\ ValidateTable(table.grid) # NoValue
             THEN AcceptPdfplumber(Tail(extracted),
                      Append(acc, TableRecord(method, ValidateTable(table.grid), 90)), method)
             ELSE AcceptPdfplumber(Tail(extracted), acc, method)

\* df.empty
DfEmpty(grid) == grid = <<>> \/ Len(grid[1]) = 0

\* lines 739-751 and 762-774: the loop over the tables of one camelot flavor
RECURSIVE AcceptCamelot(_, _, _)
AcceptCamelot(extracted, acc, method) ==
    IF extracted = <<>> THEN [tables |-> acc, raised |-> FALSE]
    ELSE LET table == extracted[1]
         IN  IF table.malformed THEN [tables |-> acc, raised |-> TRUE]
             ELSE IF ~DfEmpty(table.grid) /\ ValidateTable(table.grid) # NoValue
             THEN AcceptCamelot(Tail(extracted),
                      Append(acc, TableRecord(method, ValidateTable(table.grid),
                                              IntOfAccuracy(table.accuracy))), method)
             ELSE AcceptCamelot(Tail(extracted), acc, method)

\* lines 701 and 721-722: is the next pdfplumber variant tried
TryNextVariantNoBreak(raised, tabs, s) == ~raised /\ s < Len(PdfplumberMethods)

TryNextVariant(raised, tabs, s) == ~raised /\ tabs = <<>> /\ s < Len(PdfplumberMethods)

\* the manual fallback run whatever was found before it
AfterCamelotAlwaysManual(tabs) == "manual"

\* line 781: the manual fallback runs if no table was found
AfterCamelot(tabs) == IF tabs = <<>> THEN "manual" ELSE "finish"

\* line 729: camelot runs if no table was found and it is installed
AfterPdfplumber(tabs, camelot) ==
    IF tabs = <<>> /\ camelot THEN "camelot_lattice" ELSE AfterCamelot(tabs)

\* line 694
EnterTables(pdfplumber, camelot) ==
    IF pdfplumber THEN "pdfplumber" ELSE AfterPdfplumber(<<>>, camelot)

(* The manual fallback.  lines_dict is given by its bands in ascending y, each
   band by the texts of its items in ascending x. *)
BandSizes == {2, 3, 5}

Band(n) == [i \in 1..n |-> "t"]

ManualBands == SeqsUpTo({Band(n) : n \in BandSizes}, MaxBands)

Take(row, n) == SubSeq(row, 1, Min2(n, Len(row)))

RECURSIVE SumLen(_)
SumLen(table_lines) ==
    IF table_lines = <<>> THEN 0 ELSE Len(table_lines[1]) + SumLen(Tail(table_lines))

\* lines 893-894: while len(row) < len(headers): row.append('')
PadRow(row, headers) ==
    IF Len(row) < Len(headers) THEN row \o [i \in 1..(Len(headers) - Len(row)) |-> ""]
    ELSE row

StructureManualTable(table_lines) ==
    IF Len(table_lines) < 3 THEN NoValue
    ELSE LET avg_cols == SumLen(table_lines) \div Len(table_lines)
         IN  IF avg_cols < 2 THEN NoValue
             ELSE LET headers == Take(table_lines[1], avg_cols)
                      rest    == Tail(table_lines)
                      rows    == [i \in DOMAIN rest |-> PadRow(Take(rest[i], avg_cols), headers)]
                  IN  [method |-> "manual_structure", headers |-> headers, rows |-> rows,
                       quality |-> 70, columns |-> Len(headers), rows_count |-> Len(rows)]

\* lines 859-863 and 866-869: close the run of bands in current_table
CloseRun(found, current_table) ==
    IF Len(current_table) >= 3 /\ StructureManualTable(current_table) # NoValue
    THEN Append(found, StructureManualTable(current_table))
    ELSE found

\* lines 849-871
RECURSIVE BandLoop(_, _, _)
BandLoop(bands, current_table, found) ==
    IF bands = <<>> THEN CloseRun(found, current_table)
    ELSE IF Len(bands[1]) >= 3
         THEN BandLoop(Tail(bands), Append(current_table, bands[1]), found)
         ELSE BandLoop(Tail(bands), <<>>, CloseRun(found, current_table))

DetectTablesByStructure(bands) == BandLoop(bands, <<>>, <<>>)

----------------------------------------------------------------------------
(* Specification of the zone segmenter: any input list, then one call *)

IdleZones == text_blocks = <<>> /\ zones = <<>> /\ zpc = "idle"

IdleClassify == czone = NoValue /\ classification = NoValue /\ cpc = "idle"

IdleValidate == table_data = <<>> /\ validated = NoValue /\ vpc = "idle"

IdleImage == img_info = NoValue /\ image_type = NoValue /\ ipc = "idle"

IdleDoc ==
    /\ type_counts = NoValue /\ table_count = 0 /\ image_count = 0
    /\ document_type = NoValue /\ dpc = "idle"

IdleReading == page_width = 0 /\ record_zones = <<>> /\ zones_rerun = <<>> /\ rpc = "idle"

IdleHeaderFooter == hf_blocks = <<>> /\ page_height = 0 /\ header_footer = NoValue /\ hpc = "idle"

IdleLayout == lay_blocks = <<>> /\ drawings = <<>> /\ image_list = <<>> /\ lay_page = NoValue /\ layout = NoValue /\ lpc = "idle"

IdleManual == lines_dict = <<>> /\ structure_tables = <<>> /\ mpc = "idle"

IdleGrid == grid_blocks = <<>> /\ grid_system = NoValue /\ gpc = "idle"

IdleStructure == doc_pages = <<>> /\ structure = NoValue /\ spc = "idle"

IdleGui == pdf_file = "none" /\ app_pages_data = "unset" /\ is_processing = FALSE /\ workers = <<>> /\ html_files = <<>> /\ started = 0

IdleBatch == stats = NoValue /\ pdf_files = <<>> /\ overwrite = FALSE /\ batch_index = 0 /\ outputs = {} /\ calls = 0 /\ bpc = "idle"

IdleHistory == history_file = <<>> /\ saved = 0 /\ cleared_at = 0 /\ hispc = "idle"

\* every single-function call but the one named is idle
IdlePureExcept(g) ==
    /\ IF g = "image" THEN TRUE ELSE IdleImage
    /\ IF g = "doc" THEN TRUE ELSE IdleDoc
    /\ IF g = "reading" THEN TRUE ELSE IdleReading
    /\ IF g = "hf" THEN TRUE ELSE IdleHeaderFooter
    /\ IF g = "layout" THEN TRUE ELSE IdleLayout
    /\ IF g = "manual" THEN TRUE ELSE IdleManual
    /\ IF g = "grid" THEN TRUE ELSE IdleGrid
    /\ IF g = "structure" THEN TRUE ELSE IdleStructure
    /\ IF g = "gui" THEN TRUE ELSE IdleGui
    /\ IF g = "batch" THEN TRUE ELSE IdleBatch
    /\ IF g = "history" THEN TRUE ELSE IdleHistory

IdlePure == IdlePureExcept("none")

\* the frame of a single-function call: the variables of all other calls
UnchangedPureExcept(g) ==
    /\ IF g = "image" THEN TRUE ELSE UNCHANGED ivars
    /\ IF g = "doc" THEN TRUE ELSE UNCHANGED dvars
    /\ IF g = "reading" THEN TRUE ELSE UNCHANGED rvars
    /\ IF g = "hf" THEN TRUE ELSE UNCHANGED hvars
    /\ IF g = "layout" THEN TRUE ELSE UNCHANGED lvars
    /\ IF g = "manual" THEN TRUE ELSE UNCHANGED mvars
    /\ IF g = "grid" THEN TRUE ELSE UNCHANGED gvars
    /\ IF g = "structure" THEN TRUE ELSE UNCHANGED svars
    /\ IF g = "gui" THEN TRUE ELSE UNCHANGED guivars
    /\ IF g = "batch" THEN TRUE ELSE UNCHANGED bvars
    /\ IF g = "history" THEN TRUE ELSE UNCHANGED hisvars

UnchangedExcept(g) ==
    /\ UNCHANGED <<zvars, cvars, vvars, evars>>
    /\ UnchangedPureExcept(g)

IdleExtract ==
    /\ PDFPLUMBER_AVAILABLE = FALSE /\ CAMELOT_AVAILABLE = FALSE
    /\ total_pages = 0 /\ page_num = 0 /\ epc = "idle"
    /\ pages_data = <<>> /\ progress_calls = <<>> /\ page_zones = "none"
    /\ tables = <<>> /\ strategy = 1 /\ attempts = <<>> /\ log = <<>>

InitZones ==
    /\ text_blocks \in SeqsUpTo(TextBlock, MaxBlocks)
    /\ zones = <<>>
    /\ zpc = "input"
    /\ IdleClassify
    /\ IdleValidate
    /\ IdleExtract
    /\ IdlePure

DetectZones ==
    /\ zpc = "input"
    /\ \E width \in PageWidths :
           zones' = DetectReadingOrderZones(text_blocks, width)
    /\ zpc' = "done"
    /\ UNCHANGED <<text_blocks, cvars, vvars, evars, pvars>>

NextZones == DetectZones

SpecZones == InitZones /\ [][NextZones]_vars

----------------------------------------------------------------------------
(* Specification of the classifier: any zone of the domain, then one call *)

InitClassify ==
    /\ \E sz \in ZoneSizes, fp \in FontPairs, b \in BOOLEAN, i \in BOOLEAN,
          n \in BlockCounts, t \in ZoneTexts :
           /\ t.lines <= n
           /\ czone = ClassifierZone(sz, fp, b, i, n, t)
    /\ classification = NoValue
    /\ cpc = "input"
    /\ IdleZones
    /\ IdleValidate
    /\ IdleExtract
    /\ IdlePure

Classify ==
    /\ cpc = "input"
    /\ classification' = ClassifyZoneAdvanced(czone)
    /\ cpc' = "done"
    /\ UNCHANGED <<czone, zvars, vvars, evars, pvars>>

NextClassify == Classify

SpecClassify == InitClassify /\ [][NextClassify]_vars

----------------------------------------------------------------------------
(* Specification of table validation: any raw grid, then one call *)

\* the grid of the blank-row scenario
ScenarioGrid == << <<"A", "B">>, <<"", "">>, <<"1", "2">> >>

InitValidate ==
    /\ table_data \in SeqsUpTo(RawRows, MaxRows) \cup {ScenarioGrid}
    /\ validated = NoValue
    /\ vpc = "input"
    /\ IdleZones
    /\ IdleClassify
    /\ IdleExtract
    /\ IdlePure

Validate ==
    /\ vpc = "input"
    /\ validated' = ValidateTable(table_data)
    /\ vpc' = "done"
    /\ UNCHANGED <<table_data, zvars, cvars, evars, pvars>>

NextValidate == Validate

SpecValidate == InitValidate /\ [][NextValidate]_vars

----------------------------------------------------------------------------
(* Specification of extract: the page loop, one step per statement group.
   Backend calls answer nondeterministically; any of them may raise. *)

InitExtract ==
    /\ PDFPLUMBER_AVAILABLE \in BOOLEAN
    /\ CAMELOT_AVAILABLE \in BOOLEAN
    /\ total_pages \in PageCounts
    /\ page_num = 0
    /\ epc = "loop"
    /\ pages_data = <<>>
    /\ progress_calls = <<>>
    /\ page_zones = "none"
    /\ tables = <<>>
    /\ strategy = 1
    /\ attempts = <<>>
    /\ log = <<>>
    /\ IdleZones
    /\ IdleClassify
    /\ IdleValidate
    /\ IdlePure

\* the positions inside one iteration of the page loop
InPage == epc \in {"layout", "pdfplumber", "camelot_lattice", "camelot_stream",
                   "manual", "finish"}

Attempt(method, accepted, raised) ==
    [method |-> method, accepted |-> accepted, raised |-> raised]

\* lines 557-558: the loop takes the next page and reports progress
BeginPage ==
    /\ epc = "loop"
    /\ page_num < total_pages
    /\ progress_calls' = Append(progress_calls, [num |-> page_num + 1, den |-> total_pages])
    /\ page_zones' = "none"
    /\ epc' = "layout"
    /\ UNCHANGED <<zvars, cvars, vvars, pvars>>
    /\ UNCHANGED <<PDFPLUMBER_AVAILABLE, CAMELOT_AVAILABLE, total_pages, page_num,
                   pages_data, tables, strategy, attempts, log>>

\* lines 560-582: text blocks, margins, grid, visual boxes, zones, classification;
\* then _extract_tables_advanced is entered (lines 585, 691-694)
PageLayout ==
    /\ epc = "layout"
    /\ \E ok \in BOOLEAN :
           IF ok
           THEN /\ page_zones' = "classified"
                /\ tables' = <<>>
                /\ strategy' = 1
                /\ attempts' = <<>>
                /\ log' = <<>>
                /\ epc' = EnterTables(PDFPLUMBER_AVAILABLE, CAMELOT_AVAILABLE)
           ELSE /\ epc' = "raised"
                /\ UNCHANGED <<page_zones, tables, strategy, attempts, log>>
    /\ UNCHANGED <<zvars, cvars, vvars, pvars>>
    /\ UNCHANGED <<PDFPLUMBER_AVAILABLE, CAMELOT_AVAILABLE, total_pages, page_num,
                   pages_data, progress_calls>>

\* lines 695-726: one variant of pdfplumber
PdfplumberVariant ==
    /\ epc = "pdfplumber"
    /\ \E out \in BackendOutcomes :
           LET method == PdfplumberMethods[strategy]
               res    == IF out.raises THEN [tables |-> tables, raised |-> TRUE]
                         ELSE AcceptPdfplumber(out.extracted, tables, method)
               go_on  == TryNextVariant(res.raised, res.tables, strategy)
           IN  /\ tables' = res.tables
               /\ attempts' = Append(attempts,
                                  Attempt(method, Len(res.tables) - Len(tables), res.raised))
               /\ log' = IF res.raised THEN Append(log, "pdfplumber_error")
                         ELSE IF go_on THEN log
                         ELSE Append(log, "pdfplumber_found")
               /\ strategy' = IF go_on THEN strategy + 1 ELSE strategy
               /\ epc' = IF go_on THEN "pdfplumber"
                         ELSE AfterPdfplumber(res.tables, CAMELOT_AVAILABLE)
    /\ UNCHANGED <<zvars, cvars, vvars, pvars>>
    /\ UNCHANGED <<PDFPLUMBER_AVAILABLE, CAMELOT_AVAILABLE, total_pages, page_num,
                   pages_data, progress_calls, page_zones>>

\* lines 730-751: camelot, flavor lattice
CamelotLattice ==
    /\ epc = "camelot_lattice"
    /\ \E out \in BackendOutcomes :
           LET res == IF out.raises THEN [tables |-> tables, raised |-> TRUE]
                      ELSE AcceptCamelot(out.extracted, tables, "camelot_lattice")
           IN  /\ tables' = res.tables
               /\ attempts' = Append(attempts,
                                  Attempt("camelot_lattice", Len(res.tables) - Len(tables),
                                          res.raised))
               /\ log' = IF res.raised THEN Append(log, "camelot_error")
                         ELSE IF res.tables = <<>> THEN log
                         ELSE Append(log, "camelot_found")
               /\ epc' = IF ~res.raised /\ res.tables = <<>> THEN "camelot_stream"
                         ELSE AfterCamelot(res.tables)
    /\ UNCHANGED <<zvars, cvars, vvars, pvars>>
    /\ UNCHANGED <<PDFPLUMBER_AVAILABLE, CAMELOT_AVAILABLE, total_pages, page_num,
                   pages_data, progress_calls, page_zones, strategy>>

\* lines 753-778: camelot, flavor stream
CamelotStream ==
    /\ epc = "camelot_stream"
    /\ \E out \in BackendOutcomes :
           LET res == IF out.raises THEN [tables |-> tables, raised |-> TRUE]
                      ELSE AcceptCamelot(out.extracted, tables, "camelot_stream")
           IN  /\ tables' = res.tables
               /\ attempts' = Append(attempts,
                                  Attempt("camelot_stream", Len(res.tables) - Len(tables),
                                          res.raised))
               /\ log' = IF res.raised THEN Append(log, "camelot_error")
                         ELSE Append(log, "camelot_found")
               /\ epc' = AfterCamelot(res.tables)
    /\ UNCHANGED <<zvars, cvars, vvars, pvars>>
    /\ UNCHANGED <<PDFPLUMBER_AVAILABLE, CAMELOT_AVAILABLE, total_pages, page_num,
                   pages_data, progress_calls, page_zones, strategy>>

\* lines 781-787: the manual fallback, outside any try
ManualFallback ==
    /\ epc = "manual"
    /\ \/ \E bands \in ManualBands :
              LET manual_tables == DetectTablesByStructure(bands)
              IN  /\ tables' = tables \o manual_tables
                  /\ attempts' = Append(attempts,
                                     Attempt("manual_structure", Len(manual_tables), FALSE))
                  /\ log' = IF manual_tables # <<>> THEN Append(log, "manual_found") ELSE log
                  /\ epc' = "finish"
       \/ /\ attempts' = Append(attempts, Attempt("manual_structure", 0, TRUE))
          /\ epc' = "raised"
          /\ UNCHANGED <<tables, log>>
    /\ UNCHANGED <<zvars, cvars, vvars, pvars>>
    /\ UNCHANGED <<PDFPLUMBER_AVAILABLE, CAMELOT_AVAILABLE, total_pages, page_num,
                   pages_data, progress_calls, page_zones, strategy>>

\* the dict of lines 594-610, by the parts the claims read
PageMetadata(n, zs, tabs) ==
    [page |-> n + 1, zones |-> zs, tables |-> tabs, images |-> "images",
     has_tables |-> Len(tabs) > 0]

\* a record without the zones and tables of the page
AppendRecordPartial(data, n, zs, tabs) == Append(data, PageMetadata(n, "none", <<>>))

\* line 612
AppendRecord(data, n, zs, tabs) == Append(data, PageMetadata(n, zs, tabs))

\* lines 588-612: images, header and footer, the page record, the append; the
\* locals of the iteration (and the history of its pipeline call) end with it
PageFinish ==
    /\ epc = "finish"
    /\ \E ok \in BOOLEAN :
           IF ok
           THEN /\ pages_data' = AppendRecord(pages_data, page_num, page_zones, tables)
                /\ page_num' = page_num + 1
                /\ epc' = "loop"
                /\ page_zones' = "none"
                /\ tables' = <<>>
                /\ strategy' = 1
                /\ attempts' = <<>>
                /\ log' = <<>>
           ELSE /\ epc' = "raised"
                /\ UNCHANGED <<pages_data, page_num, page_zones, tables, strategy,
                               attempts, log>>
    /\ UNCHANGED <<zvars, cvars, vvars, pvars>>
    /\ UNCHANGED <<PDFPLUMBER_AVAILABLE, CAMELOT_AVAILABLE, total_pages, progress_calls>>

\* lines 614-617
Return ==
    /\ epc = "loop"
    /\ page_num = total_pages
    /\ epc' = "returned"
    /\ UNCHANGED <<zvars, cvars, vvars, pvars>>
    /\ UNCHANGED <<PDFPLUMBER_AVAILABLE, CAMELOT_AVAILABLE, total_pages, page_num,
                   pages_data, progress_calls, page_zones, tables, strategy, attempts, log>>

\* batch_converter.py lines 262-266: the only cancellation is the user's
\* KeyboardInterrupt; Python raises it wherever the main thread is, and nothing
\* in extract catches or defers it
KeyboardInterrupt ==
    /\ epc = "loop" \/ InPage
    /\ epc' = "interrupted"
    /\ UNCHANGED <<zvars, cvars, vvars, pvars>>
    /\ UNCHANGED <<PDFPLUMBER_AVAILABLE, CAMELOT_AVAILABLE, total_pages, page_num,
                   pages_data, progress_calls, page_zones, tables, strategy, attempts, log>>

NextExtract ==
    \/ KeyboardInterrupt
    \/ BeginPage
    \/ PageLayout
    \/ PdfplumberVariant
    \/ CamelotLattice
    \/ CamelotStream
    \/ ManualFallback
    \/ PageFinish
    \/ Return

SpecExtract == InitExtract /\ [][NextExtract]_vars

----------------------------------------------------------------------------
(* Claims about the zone segmenter (SpecZones) *)

RECURSIVE Flatten(_)
Flatten(zs) == IF zs = <<>> THEN <<>> ELSE zs[1].blocks \o Flatten(Tail(zs))

Occurrences(s, x) == Cardinality({i \in DOMAIN s : s[i] = x})

Encloses(zone, b) ==
    zone.x0 <= b.x0 /\ zone.y0 <= b.y0 /\ b.x1 <= zone.x1 /\ b.y1 <= zone.y1

\* C1: every input block is in exactly one zone: the zones' block lists, put end
\* to end, are the input blocks in (top, left) order, blocks of equal position
\* in their input order, none lost and none twice; every zone's box encloses
\* each of its blocks, so every input block lies inside some zone's box.
C1_EveryBlockInOneZone ==
    zpc = "done" =>
        LET flat == Flatten(zones)
        IN  /\ Len(flat) = Len(text_blocks)
            /\ \A b \in TextBlock : Occurrences(flat, b) = Occurrences(text_blocks, b)
            /\ \A i \in 1..(Len(flat) - 1) :
                   \/ flat[i].y0 < flat[i + 1].y0
                   \/ flat[i].y0 = flat[i + 1].y0 /\ flat[i].x0 <= flat[i + 1].x0
            /\ \A k \in TextBlock :
                   LET AtK(b) == b.y0 = k.y0 /\ b.x0 = k.x0
                   IN  SelectSeq(flat, AtK) = SelectSeq(text_blocks, AtK)
            /\ \A i \in DOMAIN zones :
                   /\ zones[i].blocks # <<>>
                   /\ \A j \in DOMAIN zones[i].blocks : Encloses(zones[i], zones[i].blocks[j])
            /\ \A i \in DOMAIN text_blocks :
                   \E j \in DOMAIN zones : Encloses(zones[j], text_blocks[i])

\* an unsorted input of three blocks that ends in two zones, one of two blocks
C1_Witness ==
    /\ zpc = "done"
    /\ Len(text_blocks) = 3
    /\ text_blocks[1].y0 > text_blocks[2].y0
    /\ Len(zones) = 2
    /\ zones[1].block_count = 2
    /\ zones[1].width > BlockWidth(zones[1].blocks[1])

----------------------------------------------------------------------------
(* Claims about the classifier (SpecClassify) *)

ZoneTypes ==
    {"title", "subtitle", "header", "paragraph", "list",
     "table_like", "card", "caption", "footnote"}

\* C2: every one of the nine scores lies in [0,1], the selected type has a score
\* that no other score exceeds, and the confidence is that score.
C2_ScoresInUnitRangeAndArgmax ==
    cpc = "done" =>
        /\ DOMAIN classification.scores = ZoneTypes
        /\ \A t \in ZoneTypes :
               0 <= classification.scores[t] /\ classification.scores[t] <= 10000
        /\ classification.type \in ZoneTypes
        /\ \A t \in ZoneTypes :
               classification.scores[t] <= classification.scores[classification.type]
        /\ classification.confidence = classification.scores[classification.type]

\* a zone of more than 20 words on more than 2 lines with a small font: the title
\* sum is negative and comes out as 0, and another type wins with a positive score
C2_Witness ==
    /\ cpc = "done"
    /\ classification.features.word_count > 20
    /\ classification.features.line_count > 2
    /\ classification.features.max_font_size < 16
    /\ classification.scores.title = 0
    /\ classification.confidence > 0
    /\ classification.confidence < 10000

PositionIn(order, t) == CHOOSE i \in DOMAIN order : order[i] = t

FirstMaximalIn(order) ==
    cpc = "done" =>
        \A t \in ZoneTypes :
            classification.scores[t] = classification.scores[classification.type]
                => PositionIn(order, classification.type) <= PositionIn(order, t)

\* C3 as claimed: among the types that share the maximum score the winner is the
\* first in title > header > subtitle > list > table_like > card > caption >
\* footnote > paragraph.
C3_ClaimedPriority ==
    FirstMaximalIn(<<"title", "header", "subtitle", "list", "table_like",
                     "card", "caption", "footnote", "paragraph">>)

\* C3 amended: among the types that share the maximum score the winner is the
\* first in title > subtitle > header > paragraph > list > table_like > card >
\* caption > footnote.
C3_TieBreakInScoreOrder ==
    FirstMaximalIn(<<"title", "subtitle", "header", "paragraph", "list",
                     "table_like", "card", "caption", "footnote">>)

\* paragraph wins an exact tie against a more specific type
C3_Witness ==
    /\ cpc = "done"
    /\ classification.type = "paragraph"
    /\ \E t \in ZoneTypes \ {"paragraph"} :
           classification.scores[t] = classification.confidence

\* subtitle wins an exact tie against header
C3_WitnessSubtitle ==
    /\ cpc = "done"
    /\ classification.type = "subtitle"
    /\ classification.scores.header = classification.confidence

----------------------------------------------------------------------------
(* Claims about table validation (SpecValidate) *)

WellFormedTable(t) ==
    /\ Len(t.headers) > 0
    /\ \A i \in DOMAIN t.rows : Len(t.rows[i]) = Len(t.headers)

\* C5: _validate_table returns nothing, or a table whose header has at least one
\* cell and whose every body row has exactly as many cells as the header.
C5_ValidatedTableWellFormed ==
    vpc = "done" => (validated = NoValue \/ WellFormedTable(validated))

\* a grid of three rows: a blank one that is dropped, and a body row longer
\* than the header that is cut to the header's width
C5_Witness ==
    /\ vpc = "done"
    /\ validated # NoValue
    /\ Len(table_data) = 3
    /\ Len(validated.rows) = 1
    /\ \E i \in DOMAIN table_data :
           AnyCell(table_data[i]) /\ Len(table_data[i]) > Len(validated.headers)

----------------------------------------------------------------------------
(* Claims about extract and the table pipeline (SpecExtract) *)

\* C4: every table that appears in a page record, whichever strategy produced
\* it, has a header with at least one cell and body rows that all have exactly
\* as many cells as the header.
C4_PageTablesWellFormed ==
    \A i \in DOMAIN pages_data :
        \A j \in DOMAIN pages_data[i].tables : WellFormedTable(pages_data[i].tables[j])

StrategyOrder ==
    <<"pdfplumber_lines", "pdfplumber_lines_strict", "pdfplumber_text",
      "camelot_lattice", "camelot_stream", "manual_structure">>

StrategyRank(method) == PositionIn(StrategyOrder, method)

\* C6: on each page the strategies run in the fixed order lines, lines_strict,
\* text, lattice, stream, manual; a strategy that is followed by another one
\* accepted no table, so nothing runs after the first strategy with a validated
\* table; lines_strict and text come right after the previous variant and
\* stream right after lattice.
C6_ShortCircuit ==
    /\ \A i, j \in DOMAIN attempts :
           i < j => /\ StrategyRank(attempts[i].method) < StrategyRank(attempts[j].method)
                    /\ attempts[i].accepted = 0
    /\ \A j \in DOMAIN attempts :
           StrategyRank(attempts[j].method) \in {2, 3, 5} =>
               /\ j > 1
               /\ StrategyRank(attempts[j - 1].method) = StrategyRank(attempts[j].method) - 1
    /\ (epc \in {"camelot_lattice", "camelot_stream", "manual"}) => tables = <<>>
    /\ (epc = "pdfplumber" /\ strategy > 1) => tables = <<>>

\* the three variants of pdfplumber and lattice found nothing, stream found a
\* table, and the manual fallback did not run
C6_Witness ==
    /\ epc = "finish"
    /\ Len(attempts) = 5
    /\ attempts[5].method = "camelot_stream"
    /\ attempts[5].accepted > 0
    /\ tables # <<>>

\* C7: no exception raised while processing a page leaves extract.
C7_NoPageExceptionEscapes == epc # "raised"

IsBackend(method) == method # "manual_structure"

ErrorLogged(method) ==
    \E k \in DOMAIN log :
        log[k] = (IF StrategyRank(method) <= 3 THEN "pdfplumber_error" ELSE "camelot_error")

\* C8: when pdfplumber or camelot raises, the exception is logged, the pipeline
\* goes on to the next strategy, and if every strategy fails the page's pipeline
\* still ends normally, with an empty table list.
C8_BackendThrowContained ==
    \A i \in DOMAIN attempts :
        (attempts[i].raised /\ IsBackend(attempts[i].method)) =>
            /\ ErrorLogged(attempts[i].method)
            /\ (i = Len(attempts)) => epc \in {"camelot_lattice", "manual"}
            /\ ~(epc = "raised" /\ attempts[Len(attempts)].method = "manual_structure"
                                /\ attempts[Len(attempts)].raised)

\* C9: progress is reported for page k only once the record of page k is in
\* pages_data.
C9_ProgressAfterPageCompletes ==
    \A i \in DOMAIN progress_calls : progress_calls[i].num <= Len(pages_data)

\* C10: pages_data always holds the complete records of pages 1..page_num in
\* ascending order, a page is begun only when the records of all pages before
\* it are appended, and on return there is one record per page, record i
\* carrying page index i.
C10_SequentialCompleteRecords ==
    /\ Len(pages_data) = page_num
    /\ \A i \in DOMAIN pages_data :
           /\ pages_data[i].page = i
           /\ pages_data[i].zones = "classified"
           /\ pages_data[i].has_tables = (Len(pages_data[i].tables) > 0)
    /\ \A i \in DOMAIN progress_calls : progress_calls[i].num = i
    /\ InPage => Len(progress_calls) = Len(pages_data) + 1
    /\ epc \in {"loop", "returned"} => Len(progress_calls) = Len(pages_data)
    /\ epc = "returned" => Len(pages_data) = total_pages

\* a document of at least two pages has been extracted, the second page with a table
C10_Witness ==
    /\ epc = "returned"
    /\ total_pages >= 2
    /\ Len(pages_data) = total_pages
    /\ pages_data[2].tables # <<>>

\* C11: a cancel request never takes effect in the middle of a page: when the
\* run is stopped by the user's interrupt, every page that was begun has been
\* finished and its record appended.
C11_CancelOnlyBetweenPages ==
    epc = "interrupted" => Len(progress_calls) = Len(pages_data)

----------------------------------------------------------------------------
(* AdvancedPDFExtractor._classify_image *)

\* img_info['area'], in square points
ImageAreas ==
    {0, 1500, 1999, 2000, 9000, 9999, 10000, 10001, 50000, 100000, 100001,
     150000, 199999, 200000, 250000}

\* img_info['aspect_ratio'], in hundredths
ImageAspects == {0, 50, 80, 81, 100, 119, 120, 121, 300, 301, 500}

\* the icon test placed before the logo test
ClassifyImageIconFirst(info) ==
    IF info.area < 2000 THEN "icon"
    ELSE IF info.area < 10000 /\ 80 < info.aspect_ratio /\ info.aspect_ratio < 120 THEN "logo"
    ELSE IF info.aspect_ratio > 300 THEN "banner"
    ELSE IF 10000 < info.area /\ info.area < 200000 THEN "chart"
    ELSE IF info.area > 100000 THEN "photo"
    ELSE "figure"

ClassifyImage(info) ==
    IF info.area < 10000 /\ 80 < info.aspect_ratio /\ info.aspect_ratio < 120 THEN "logo"
    ELSE IF info.area < 2000 THEN "icon"
    ELSE IF info.aspect_ratio > 300 THEN "banner"
    ELSE IF 10000 < info.area /\ info.area < 200000 THEN "chart"
    ELSE IF info.area > 100000 THEN "photo"
    ELSE "figure"

InitImage ==
    /\ img_info \in [area : ImageAreas, aspect_ratio : ImageAspects]
    /\ image_type = NoValue
    /\ ipc = "input"
    /\ IdleZones
    /\ IdleClassify
    /\ IdleValidate
    /\ IdleExtract
    /\ IdlePureExcept("image")

ClassifyImageCall ==
    /\ ipc = "input"
    /\ image_type' = ClassifyImage(img_info)
    /\ ipc' = "done"
    /\ img_info' = img_info
    /\ UnchangedExcept("image")

NextImage == ClassifyImageCall

SpecImage == InitImage /\ [][NextImage]_vars

\* the rule chain as a table of guarded roles, in order
ImageRules(area, aspect) ==
    << <<area < 10000 /\ 80 < aspect /\ aspect < 120, "logo">>,
       <<area < 2000, "icon">>,
       <<aspect > 300, "banner">>,
       <<10000 < area /\ area < 200000, "chart">>,
       <<area > 100000, "photo">>,
       <<TRUE, "figure">> >>

FirstMatch(rules) ==
    rules[CHOOSE k \in DOMAIN rules :
              rules[k][1] /\ \A j \in 1..(k - 1) : ~rules[j][1]][2]

ImageRuleChainHolds ==
    ipc = "done" =>
        /\ image_type = FirstMatch(ImageRules(img_info.area, img_info.aspect_ratio))
        /\ (img_info.area = 9000 /\ img_info.aspect_ratio = 100) => image_type = "logo"

\* C12 as stated: the role is the first matching rule of the chain; every image
\* of area 1500 is an icon, and area 9000 with aspect ratio 1.0 is a logo.
C12_AsStated ==
    /\ ImageRuleChainHolds
    /\ (ipc = "done" /\ img_info.area = 1500) => image_type = "icon"

\* C12, amended: the role is the first matching rule of the chain; an image of
\* area 1500 is an icon unless its aspect ratio lies strictly between 0.8 and
\* 1.2, in which case it is a logo; area 9000 with aspect ratio 1.0 is a logo.
C12_RuleChain ==
    /\ ImageRuleChainHolds
    /\ (ipc = "done" /\ img_info.area = 1500) =>
           image_type = (IF 80 < img_info.aspect_ratio /\ img_info.aspect_ratio < 120
                         THEN "logo" ELSE "icon")

\* a square image of area 1500 has been classified, as a logo
C12_Witness ==
    /\ ipc = "done"
    /\ img_info.area = 1500
    /\ img_info.aspect_ratio = 100
    /\ image_type = "logo"

----------------------------------------------------------------------------
(* AdvancedPDFExtractor._infer_document_type *)

\* Counter(zone_types), by the four counts the function reads
TypeCounts ==
    [paragraph : {0, 5, 6, 10, 11, 12, 20, 21}, title : {0, 5, 6},
     list : {0, 10, 11}, header : {0, 10, 11}]

TableCounts == {0, 1, 2, 3, 5, 6}

ImageCounts == {0, 5, 6}

\* the manual test placed before the presentation test
InferDocumentTypeManualFirst(counts, tabs, imgs) ==
    IF tabs > 5 \/ (tabs > 2 /\ counts.paragraph > 10) THEN "scientific_paper"
    ELSE IF counts.list > 10 \/ counts.header > 10 THEN "manual"
    ELSE IF counts.title > 5 /\ imgs > 5 THEN "presentation"
    ELSE IF tabs > 0 /\ counts.paragraph > 5 THEN "report"
    ELSE IF counts.paragraph > 20 THEN "book"
    ELSE "generic_document"

InferDocumentType(counts, tabs, imgs) ==
    IF tabs > 5 \/ (tabs > 2 /\ counts.paragraph > 10) THEN "scientific_paper"
    ELSE IF counts.title > 5 /\ imgs > 5 THEN "presentation"
    ELSE IF counts.list > 10 \/ counts.header > 10 THEN "manual"
    ELSE IF tabs > 0 /\ counts.paragraph > 5 THEN "report"
    ELSE IF counts.paragraph > 20 THEN "book"
    ELSE "generic_document"

InitDoc ==
    /\ type_counts \in TypeCounts
    /\ table_count \in TableCounts
    /\ image_count \in ImageCounts
    /\ document_type = NoValue
    /\ dpc = "input"
    /\ IdleZones
    /\ IdleClassify
    /\ IdleValidate
    /\ IdleExtract
    /\ IdlePureExcept("doc")

InferDocumentTypeCall ==
    /\ dpc = "input"
    /\ document_type' = InferDocumentType(type_counts, table_count, image_count)
    /\ dpc' = "done"
    /\ UNCHANGED <<type_counts, table_count, image_count>>
    /\ UnchangedExcept("doc")

NextDoc == InferDocumentTypeCall

SpecDoc == InitDoc /\ [][NextDoc]_vars

DocRules(counts, tabs, imgs) ==
    << <<tabs > 5 \/ (tabs > 2 /\ counts.paragraph > 10), "scientific_paper">>,
       <<counts.title > 5 /\ imgs > 5, "presentation">>,
       <<counts.list > 10 \/ counts.header > 10, "manual">>,
       <<tabs > 0 /\ counts.paragraph > 5, "report">>,
       <<counts.paragraph > 20, "book">>,
       <<TRUE, "generic_document">> >>

\* C13: the archetype is that of the first matching rule of the ordered chain;
\* 6 tables and 12 paragraphs give scientific_paper.
C13_ArchetypeRuleChain ==
    dpc = "done" =>
        /\ document_type = FirstMatch(DocRules(type_counts, table_count, image_count))
        /\ (table_count = 6 /\ type_counts.paragraph = 12) => document_type = "scientific_paper"

\* a document satisfying both the presentation and the manual rule has been
\* typed, as a presentation
C13_Witness ==
    /\ dpc = "done"
    /\ type_counts.title = 6 /\ image_count = 6 /\ type_counts.list = 11
    /\ table_count = 0
    /\ document_type = "presentation"

\* 6 tables and 12 paragraphs
C13_WitnessScenario ==
    /\ dpc = "done"
    /\ table_count = 6 /\ type_counts.paragraph = 12
    /\ document_type = "scientific_paper"

----------------------------------------------------------------------------
(* The classifier on the zones of the title scenario: max font size 28, 4 words,
   bold; every other feature varies *)

TitleZoneSizes == ZoneSizes \cup {<<300, 50>>}

TitleFontPairs == {<<11, 28>>, <<28, 28>>}

TitleBlockCounts == {1, 2, 4, 6, 10}

TitleTexts ==
    {t \in [length : {20, 60, 120}, words : {4}, lines : LineCounts,
            upper : {0, 1}, isupper : BOOLEAN, has_numbers : BOOLEAN,
            starts_with_number : BOOLEAN, has_list_markers : BOOLEAN,
            has_table_words : BOOLEAN, has_colon : BOOLEAN] :
        /\ t.lines <= t.words
        /\ t.isupper => t.upper > 0
        /\ t.starts_with_number => t.has_numbers}

InitTitleScenario ==
    /\ \E sz \in TitleZoneSizes, fp \in TitleFontPairs, i \in BOOLEAN,
          n \in TitleBlockCounts, t \in TitleTexts :
           /\ t.lines <= n
           /\ czone = ClassifierZone(sz, fp, TRUE, i, n, t)
    /\ classification = NoValue
    /\ cpc = "input"
    /\ IdleZones
    /\ IdleValidate
    /\ IdleExtract
    /\ IdlePure

SpecTitleScenario == InitTitleScenario /\ [][NextClassify]_vars

TitleScenarioZone ==
    /\ cpc = "done"
    /\ czone.max_font_size = 28
    /\ czone.text.words = 4
    /\ czone.has_bold

TitleUnrivalled ==
    /\ ~(RatioGT([num |-> czone.width, den |-> czone.height], 7, 10)
         /\ RatioLT([num |-> czone.width, den |-> czone.height], 15, 10))
    /\ czone.block_count < 6
    /\ ~czone.text.has_list_markers
    /\ ~(czone.text.starts_with_number /\ czone.text.has_colon)

----------------------------------------------------------------------------
(* The paragraph scenario: two groups of blocks 40 units apart are segmented;
   zones of at least 15 words in font size 11 are classified *)

GroupGap == 40

\* the blocks of one paragraph group, before it is placed on the page
GroupBlocks == {b \in TextBlock : b.y0 \in {0, 12}}

\* a paragraph group: one or two blocks that form one zone by themselves
ParagraphGroups ==
    {g \in SeqsUpTo(GroupBlocks, 2) :
        /\ g # <<>>
        /\ \A w \in PageWidths : Len(DetectReadingOrderZones(g, w)) = 1}

Bottom(g) == SetMax({g[k].y1 : k \in DOMAIN g})

Top(g) == SetMin({g[k].y0 : k \in DOMAIN g})

ShiftDown(g, dy) == [k \in DOMAIN g |-> [g[k] EXCEPT !.y0 = @ + dy, !.y1 = @ + dy]]

\* the second group placed GroupGap below the bottom of the first
PlaceBelow(g1, g2) == ShiftDown(g2, Bottom(g1) + GroupGap - Top(g2))

ParagraphWordCounts == {15, 25, 60}

ParagraphTexts == {t \in ZoneTexts : t.words \in ParagraphWordCounts}

ParagraphBlockCounts == {1, 2, 4, 6, 10}

InitParagraphScenario ==
    /\ \/ /\ \E g1 \in ParagraphGroups, g2 \in ParagraphGroups, first \in BOOLEAN :
                 text_blocks = IF first THEN g1 \o PlaceBelow(g1, g2)
                               ELSE PlaceBelow(g1, g2) \o g1
          /\ zones = <<>>
          /\ zpc = "input"
          /\ IdleClassify
       \/ /\ \E sz \in ZoneSizes, b \in BOOLEAN, i \in BOOLEAN,
                n \in ParagraphBlockCounts, t \in ParagraphTexts :
                 /\ t.lines <= n
                 /\ czone = ClassifierZone(sz, <<11, 11>>, b, i, n, t)
          /\ classification = NoValue
          /\ cpc = "input"
          /\ IdleZones
    /\ IdleValidate
    /\ IdleExtract
    /\ IdlePure

NextParagraphScenario ==
    \/ DetectZones
    \/ Classify

SpecParagraphScenario == InitParagraphScenario /\ [][NextParagraphScenario]_vars

\* the blocks above the gap and the blocks below it, in reading order
BlocksAbove(blocks, cut) ==
    SortedBlocks(SelectSeq(blocks, LAMBDA b : b.y1 <= cut))

BlocksBelow(blocks, cut) ==
    SortedBlocks(SelectSeq(blocks, LAMBDA b : b.y0 >= cut + GroupGap))

\* the bottom of the upper group
GapCut(blocks) ==
    CHOOSE cut \in {blocks[k].y1 : k \in DOMAIN blocks} :
        /\ \A k \in DOMAIN blocks : blocks[k].y1 <= cut \/ blocks[k].y0 >= cut + GroupGap
        /\ \E k \in DOMAIN blocks : blocks[k].y0 = cut + GroupGap

TwoGroupsGiveTwoZones ==
    zpc = "done" =>
        /\ Len(zones) = 2
        /\ zones[1].blocks = BlocksAbove(text_blocks, GapCut(text_blocks))
        /\ zones[2].blocks = BlocksBelow(text_blocks, GapCut(text_blocks))

ParagraphScenarioZone ==
    /\ cpc = "done"
    /\ czone.text.words >= 15
    /\ czone.avg_font_size = 11
    /\ czone.max_font_size = 11

\* C15 as stated: the two groups give two zones, and every zone of at least 15
\* words in font size 11 is classified as paragraph.
C15_AsStated ==
    /\ TwoGroupsGiveTwoZones
    /\ ParagraphScenarioZone => classification.type = "paragraph"

\* C15, amended: the two groups give two zones; a zone of at least 15 words in
\* font size 11 that is neither bold nor all caps is classified as paragraph,
\* with confidence 1.0, if its text has at least 2 lines, and as paragraph also
\* if it has one line and fewer than 10 blocks.
C15_ParagraphScenario ==
    /\ TwoGroupsGiveTwoZones
    /\ (ParagraphScenarioZone /\ ~czone.has_bold /\ ~czone.text.isupper) =>
           /\ czone.text.lines >= 2 =>
                  classification.type = "paragraph" /\ classification.confidence = 10000
           /\ (czone.text.lines = 1 /\ czone.block_count < 10) =>
                  classification.type = "paragraph"

\* a zone of the scenario, neither bold nor all caps, with list markers and with a
\* table_like score of 1.0, has been classified as paragraph
C15_Witness ==
    /\ ParagraphScenarioZone
    /\ ~czone.has_bold
    /\ czone.text.has_list_markers
    /\ classification.scores.table_like = 10000
    /\ classification.type = "paragraph"

\* two groups of two blocks each, handed over lower group first, have been
\* segmented into two zones
C15_WitnessTwoZones ==
    /\ zpc = "done"
    /\ Len(text_blocks) = 4
    /\ text_blocks[1].y0 > text_blocks[3].y1
    /\ Len(zones) = 2
    /\ Len(zones[1].blocks) = 2

----------------------------------------------------------------------------
(* More claims about table validation (SpecValidate) *)

\* the rows of the grid with a non-empty cell after stripping, in order
NonBlankRows(data) == SelectSeq(data, AnyCell)

\* row is src stripped, then cut or filled with '' to n cells
IsFitted(row, src, n) ==
    /\ Len(row) = n
    /\ \A j \in 1..n : row[j] = (IF j <= Len(src) THEN StrStrip(src[j]) ELSE "")

\* C16: blank rows are dropped; with fewer than 2 non-blank rows nothing is
\* returned; otherwise the first non-blank row is the header and every other
\* non-blank row, in order, is padded with '' or cut to the header's length;
\* the scenario grid gives header A, B and the one row 1, 2.
C16_ValidateTableContract ==
    vpc = "done" =>
        LET kept == NonBlankRows(table_data)
        IN  /\ Len(kept) < 2 => validated = NoValue
            /\ Len(kept) >= 2 =>
                   /\ validated # NoValue
                   /\ IsFitted(validated.headers, kept[1], Len(kept[1]))
                   /\ Len(validated.rows) = Len(kept) - 1
                   /\ \A k \in 1..(Len(kept) - 1) :
                          IsFitted(validated.rows[k], kept[k + 1], Len(kept[1]))
            /\ table_data = ScenarioGrid =>
                   validated = [headers |-> <<"A", "B">>, rows |-> << <<"1", "2">> >>]

\* the scenario grid has been validated
C16_Witness ==
    /\ vpc = "done"
    /\ table_data = ScenarioGrid
    /\ validated # NoValue
    /\ Len(validated.rows) = 1


-----------------------------------------------------------------------------
(* Reading order of a page: segmentation, the classification loop of        *)
(* extract and a second run of the segmentation on the same blocks.         *)

\* blocks of one width: the page of this specification
ReadingBlocks == {b \in TextBlock : BlockWidth(b) = 40}

\* the zone types the classification loop hands out here; the text that
\* decides the type is not part of a block of this page
ReadingTypes == {"title", "paragraph"}

\* dict.update: the keys of the classification win over the zone's
ZoneUpdate(zone, cls) == cls @@ zone

\* for zone in zones: zone.update(classify_zone_advanced(zone))
ClassifyLoop(zs, types) ==
    [i \in 1..Len(zs) |-> ZoneUpdate(zs[i], [type |-> types[i]])]

InitReading ==
    /\ text_blocks \in SeqsUpTo(ReadingBlocks, MaxBlocks)
    /\ zones = <<>>
    /\ zpc = "input"
    /\ page_width \in PageWidths
    /\ record_zones = <<>>
    /\ zones_rerun = <<>>
    /\ rpc = "input"
    /\ IdleClassify /\ IdleValidate /\ IdleExtract
    /\ IdlePureExcept("reading")

SegmentPage ==
    /\ zpc = "input"
    /\ zones' = DetectReadingOrderZones(text_blocks, page_width)
    /\ zpc' = "done"
    /\ UNCHANGED <<text_blocks, rvars, cvars, vvars, evars>>
    /\ UnchangedPureExcept("reading")

ClassifyZones ==
    /\ zpc = "done" /\ rpc = "input"
    /\ \E types \in [1..Len(zones) -> ReadingTypes] :
           record_zones' = ClassifyLoop(zones, types)
    /\ rpc' = "classified"
    /\ UNCHANGED <<page_width, zones_rerun, zvars, cvars, vvars, evars>>
    /\ UnchangedPureExcept("reading")

SegmentAgain ==
    /\ rpc = "classified"
    /\ zones_rerun' = DetectReadingOrderZones(text_blocks, page_width)
    /\ rpc' = "rerun"
    /\ UNCHANGED <<page_width, record_zones, zvars, cvars, vvars, evars>>
    /\ UnchangedPureExcept("reading")

NextReading == SegmentPage \/ ClassifyZones \/ SegmentAgain

SpecReading == InitReading /\ [][NextReading]_vars

FirstBlocksInOrder(zs) ==
    \A i \in 1..(Len(zs) - 1) : KeyLE(zs[i].blocks[1], zs[i + 1].blocks[1])

-----------------------------------------------------------------------------
(* _detect_header_footer: header and footer by position on the page.        *)

PageHeights == {0, 100, 200}

\* tops of the blocks handed in: above the page, at its top edge, in the top
\* band, and in the bottom band of each page height
HFBlockY0s == {-20, 0, 5, 95, 185}

HFBlocks == {[x0 |-> 0, y0 |-> y, x1 |-> 40, y1 |-> y + 10] : y \in HFBlockY0s}

\* b.y1 < page_height * 0.1
InHeaderZone(b, height) == 10 * b.y1 < height

\* b.y0 > page_height * 0.9
InFooterZone(b, height) == 10 * b.y0 > 9 * height

\* {...} if blocks else None
BlocksOrNone(blocks) == IF blocks # <<>> THEN [blocks |-> blocks] ELSE NoValue

DetectHeaderFooter(blocks, height) ==
    LET header_blocks == SelectSeq(blocks, LAMBDA b : InHeaderZone(b, height))
        footer_blocks == SelectSeq(blocks, LAMBDA b : InFooterZone(b, height))
    IN  [header |-> BlocksOrNone(header_blocks),
         footer |-> BlocksOrNone(footer_blocks)]

InitHeaderFooter ==
    /\ hf_blocks \in SeqsUpTo(HFBlocks, MaxBlocks)
    /\ page_height \in PageHeights
    /\ header_footer = NoValue
    /\ hpc = "input"
    /\ IdleZones /\ IdleClassify /\ IdleValidate /\ IdleExtract
    /\ IdlePureExcept("hf")

DetectHeaderFooterCall ==
    /\ hpc = "input"
    /\ header_footer' = DetectHeaderFooter(hf_blocks, page_height)
    /\ hpc' = "done"
    /\ UNCHANGED <<hf_blocks, page_height>>
    /\ UnchangedExcept("hf")

NextHeaderFooter == DetectHeaderFooterCall

SpecHeaderFooter == InitHeaderFooter /\ [][NextHeaderFooter]_vars

\* C18: on a page of height zero the call reports no header and no footer,
\* whatever text blocks it is given.
C18_ZeroHeightNoHeaderFooter ==
    (hpc = "done" /\ page_height = 0) =>
        /\ header_footer.header = NoValue
        /\ header_footer.footer = NoValue

-----------------------------------------------------------------------------
(* Layout analysis of one page: margins, grid, visual boxes, zones, images, *)
(* header and footer (extract, lines 563-590, without the tables).          *)

LayoutPages == {[width |-> w, height |-> h] : w \in PageWidths, h \in PageHeights}

\* an item of a drawing: a line, or a rectangle of a given size
DrawingItems ==
    {[kind |-> "l", width |-> 0, height |-> 0],
     [kind |-> "r", width |-> 40, height |-> 40],
     [kind |-> "r", width |-> 200, height |-> 100],
     [kind |-> "r", width |-> 300, height |-> 100]}

MaxDrawings == 1

\* an entry of page.get_images: extract_image raises, or one image rectangle
PageImages ==
    {[raises |-> TRUE, area |-> 0, aspect_ratio |-> 0],
     [raises |-> FALSE, area |-> 1500, aspect_ratio |-> 300]}

MaxImages == 1

\* the empty page gets the threshold margin instead of the page rectangle
DetectMarginsInset(blocks, page) ==
    IF blocks = <<>>
    THEN [left |-> 50, right |-> page.width - 50, top |-> 50, bottom |-> page.height - 50]
    ELSE LET x_positions == {blocks[i].x0 : i \in DOMAIN blocks} \cup {blocks[i].x1 : i \in DOMAIN blocks}
             y_positions == {blocks[i].y0 : i \in DOMAIN blocks} \cup {blocks[i].y1 : i \in DOMAIN blocks}
         IN  [left |-> SetMin(x_positions), right |-> SetMax(x_positions),
              top |-> SetMin(y_positions), bottom |-> SetMax(y_positions)]

DetectMargins(blocks, page) ==
    IF blocks = <<>>
    THEN [left |-> 0, right |-> page.width, top |-> 0, bottom |-> page.height]
    ELSE LET x_positions == {blocks[i].x0 : i \in DOMAIN blocks} \cup {blocks[i].x1 : i \in DOMAIN blocks}
             y_positions == {blocks[i].y0 : i \in DOMAIN blocks} \cup {blocks[i].y1 : i \in DOMAIN blocks}
         IN  [left |-> SetMin(x_positions), right |-> SetMax(x_positions),
              top |-> SetMin(y_positions), bottom |-> SetMax(y_positions)]

RECURSIVE InsertPos(_, _)
InsertPos(p, s) ==
    IF s = <<>> THEN <<p>>
    ELSE IF s[Len(s)] <= p THEN Append(s, p)
    ELSE Append(InsertPos(p, SubSeq(s, 1, Len(s) - 1)), s[Len(s)])

RECURSIVE SortedPositions(_)
SortedPositions(s) ==
    IF s = <<>> THEN <<>>
    ELSE InsertPos(s[Len(s)], SortedPositions(SubSeq(s, 1, Len(s) - 1)))

RECURSIVE SumSeq(_)
SumSeq(s) == IF s = <<>> THEN 0 ELSE s[1] + SumSeq(Tail(s))

\* sum(current_cluster) / len(current_cluster), kept as the quotient's terms
ClusterMean(current_cluster) ==
    [num |-> SumSeq(current_cluster), den |-> Len(current_cluster)]

cluster_tolerance == 5

\* the loop with the test taken against the running average of the cluster
RECURSIVE ClusterLoopAverage(_, _, _, _)
ClusterLoopAverage(sorted_pos, i, clusters, current_cluster) ==
    IF i > Len(sorted_pos)
    THEN IF current_cluster # <<>> THEN Append(clusters, ClusterMean(current_cluster))
         ELSE clusters
    ELSE IF sorted_pos[i] * Len(current_cluster) - SumSeq(current_cluster)
                <= cluster_tolerance * Len(current_cluster)
    THEN ClusterLoopAverage(sorted_pos, i + 1, clusters, Append(current_cluster, sorted_pos[i]))
    ELSE ClusterLoopAverage(sorted_pos, i + 1,
                            Append(clusters, ClusterMean(current_cluster)), <<sorted_pos[i]>>)

RECURSIVE ClusterLoop(_, _, _, _)
ClusterLoop(sorted_pos, i, clusters, current_cluster) ==
    IF i > Len(sorted_pos)
    THEN IF current_cluster # <<>> THEN Append(clusters, ClusterMean(current_cluster))
         ELSE clusters
    ELSE IF sorted_pos[i] - current_cluster[Len(current_cluster)] <= cluster_tolerance
    THEN ClusterLoop(sorted_pos, i + 1, clusters, Append(current_cluster, sorted_pos[i]))
    ELSE ClusterLoop(sorted_pos, i + 1,
                     Append(clusters, ClusterMean(current_cluster)), <<sorted_pos[i]>>)

ClusterPositions(positions) ==
    IF positions = <<>> THEN <<>>
    ELSE LET sorted_pos == SortedPositions(positions)
         IN  ClusterLoop(sorted_pos, 2, <<>>, <<sorted_pos[1]>>)

DetectGridSystem(blocks) ==
    IF blocks = <<>>
    THEN [columns |-> <<>>, rows |-> <<>>, grid_detected |-> FALSE]
    ELSE LET x_clusters == ClusterPositions([i \in DOMAIN blocks |-> blocks[i].x0])
             y_clusters == ClusterPositions([i \in DOMAIN blocks |-> blocks[i].y0])
         IN  [columns |-> x_clusters, rows |-> y_clusters,
              grid_detected |-> (Len(x_clusters) > 1 \/ Len(y_clusters) > 3)]

\* area_ratio = area / page_area with page_area = 0
VisualBoxesRaise(items, page) ==
    /\ page.width * page.height = 0
    /\ \E i \in DOMAIN items : items[i].kind = "r"

\* 0.005 < area_ratio < 0.95 and rect.width > 50 and rect.height > 30
RelevantBox(item, page) ==
    LET area == item.width * item.height
        page_area == page.width * page.height
    IN  /\ item.kind = "r"
        /\ 5 * page_area < 1000 * area
        /\ 100 * area < 95 * page_area
        /\ item.width > 50
        /\ item.height > 30

RECURSIVE InsertBox(_, _)
InsertBox(b, s) ==
    IF s = <<>> THEN <<b>>
    ELSE IF s[Len(s)].area >= b.area THEN Append(s, b)
    ELSE Append(InsertBox(b, SubSeq(s, 1, Len(s) - 1)), s[Len(s)])

RECURSIVE SortedBoxes(_)
SortedBoxes(s) ==
    IF s = <<>> THEN <<>>
    ELSE InsertBox(s[Len(s)], SortedBoxes(SubSeq(s, 1, Len(s) - 1)))

DetectVisualBoxes(items, page) ==
    LET kept == SelectSeq(items, LAMBDA item : RelevantBox(item, page))
    IN  SortedBoxes([i \in DOMAIN kept |->
                        [type |-> "visual_box", width |-> kept[i].width,
                         height |-> kept[i].height,
                         area |-> kept[i].width * kept[i].height]])

\* an entry whose extraction raises is logged and skipped
ExtractImagesAdvanced(imgs) ==
    LET ok == SelectSeq(imgs, LAMBDA img : ~ img.raises)
    IN  [i \in DOMAIN ok |->
            [area |-> ok[i].area, aspect_ratio |-> ok[i].aspect_ratio,
             type |-> ClassifyImage(ok[i])]]

\* the blocks of the analysed page: at the top edge, in the top band, at the bottom
LayoutBlocks == {b \in HFBlocks : b.y0 \in {0, 5, 185}}

InitLayout ==
    /\ lay_blocks \in SeqsUpTo(LayoutBlocks, MaxBlocks)
    /\ drawings \in SeqsUpTo(DrawingItems, MaxDrawings)
    /\ image_list \in SeqsUpTo(PageImages, MaxImages)
    /\ lay_page \in LayoutPages
    /\ layout = NoValue
    /\ lpc = "input"
    /\ IdleZones /\ IdleClassify /\ IdleValidate /\ IdleExtract
    /\ IdlePureExcept("layout")

AnalyzePage ==
    /\ lpc = "input"
    /\ ~ VisualBoxesRaise(drawings, lay_page)
    /\ layout' = [margins |-> DetectMargins(lay_blocks, lay_page),
                  grid |-> DetectGridSystem(lay_blocks),
                  visual_boxes |-> DetectVisualBoxes(drawings, lay_page),
                  zones |-> DetectReadingOrderZones(lay_blocks, lay_page.width),
                  images |-> ExtractImagesAdvanced(image_list),
                  header_footer |-> DetectHeaderFooter(lay_blocks, lay_page.height)]
    /\ lpc' = "done"
    /\ UNCHANGED <<lay_blocks, drawings, image_list, lay_page>>
    /\ UnchangedExcept("layout")

AnalyzePageRaises ==
    /\ lpc = "input"
    /\ VisualBoxesRaise(drawings, lay_page)
    /\ lpc' = "raised"
    /\ UNCHANGED <<lay_blocks, drawings, image_list, lay_page, layout>>
    /\ UnchangedExcept("layout")

NextLayout == AnalyzePage \/ AnalyzePageRaises

SpecLayout == InitLayout /\ [][NextLayout]_vars

EmptyPage == lay_blocks = <<>> /\ drawings = <<>> /\ image_list = <<>>

\* C19: a page with no text blocks, no drawings and no images is analysed
\* without an exception and gives no zones, no visual boxes, no images, no
\* header, no footer, a grid with no columns and no rows that is not detected,
\* and margins equal to the page rectangle.
C19_EmptyPageEmptyLayout ==
    (EmptyPage /\ lpc # "input") =>
        /\ lpc = "done"
        /\ layout.zones = <<>>
        /\ layout.visual_boxes = <<>>
        /\ layout.images = <<>>
        /\ layout.header_footer.header = NoValue
        /\ layout.header_footer.footer = NoValue
        /\ layout.grid = [columns |-> <<>>, rows |-> <<>>, grid_detected |-> FALSE]
        /\ layout.margins = [left |-> 0, top |-> 0,
                             right |-> lay_page.width, bottom |-> lay_page.height]

\* the empty page of height zero has been analysed
C19_Witness ==
    /\ EmptyPage /\ lpc = "done"
    /\ lay_page.height = 0
    /\ layout.margins.right = lay_page.width

\* a page with blocks, a card rectangle and an image gives non-empty results
C19_WitnessFullPage ==
    /\ lpc = "done"
    /\ Len(layout.zones) = 2 /\ Len(layout.visual_boxes) = 1
    /\ Len(layout.images) = 1 /\ layout.grid.rows # <<>>
    /\ layout.header_footer.footer # NoValue

-----------------------------------------------------------------------------
(* The join decision of detect_reading_order_zones, read off its result.    *)

InitJoin ==
    /\ text_blocks \in SeqsUpTo(TextBlock, MaxBlocks)
    /\ zones = <<>>
    /\ zpc = "input"
    /\ page_width \in PageWidths
    /\ record_zones = <<>>
    /\ zones_rerun = <<>>
    /\ rpc = "input"
    /\ IdleClassify /\ IdleValidate /\ IdleExtract
    /\ IdlePureExcept("reading")

NextJoin == SegmentPage

SpecJoin == InitJoin /\ [][NextJoin]_vars

\* the zone that holds the k-th block of the walk
RECURSIVE ZoneIndexOf(_, _, _)
ZoneIndexOf(zs, k, j) ==
    IF k <= Len(zs[j].blocks) THEN j
    ELSE ZoneIndexOf(zs, k - Len(zs[j].blocks), j + 1)

VerticalGap(last_block, block) == block.y0 - last_block.y1

\* overlap width divided by the narrower block's width, above 0.5
OverlapRatioAboveHalf(a, b) ==
    LET overlap_width == Min2(a.x1, b.x1) - Max2(a.x0, b.x0)
        narrower == Min2(a.x1 - a.x0, b.x1 - b.x0)
    IN  overlap_width > 0 /\ 2 * overlap_width > narrower

\* rule (a) or rule (b), taken between a block and the one walked before it
JoinRule(last_block, block, width) ==
    \/ /\ VerticalGap(last_block, block) < 15
       /\ OverlapRatioAboveHalf(last_block, block)
    \/ /\ VerticalGap(last_block, block) < 30
       /\ 100 * Abs(block.x0 - last_block.x0) < 15 * width

\* C20: walking the blocks in (top, left) order, a block is in the zone of
\* the block before it exactly when rule (a) or rule (b) holds between the
\* two, and otherwise opens the next zone; two blocks adjacent in the walk
\* with a vertical gap of 30 or more are in different zones.
C20_JoinIffRule ==
    (zpc = "done" /\ text_blocks # <<>>) =>
        LET walk == SortedBlocks(text_blocks)
        IN  /\ SumLen([j \in DOMAIN zones |-> zones[j].blocks]) = Len(walk)
            /\ \A k \in 1..(Len(walk) - 1) :
                   LET here == ZoneIndexOf(zones, k, 1)
                       next == ZoneIndexOf(zones, k + 1, 1)
                   IN  /\ JoinRule(walk[k], walk[k + 1], page_width) <=> next = here
                       /\ next \in {here, here + 1}
                       /\ VerticalGap(walk[k], walk[k + 1]) >= 30 => next # here

\* three blocks: one pair joined by rule (b) alone, the other pair split
\* although its gap is below 30
C20_Witness ==
    /\ zpc = "done" /\ Len(text_blocks) = 3 /\ Len(zones) = 2
    /\ LET walk == SortedBlocks(text_blocks)
       IN  /\ \E k \in 1..2 :
                  /\ ZoneIndexOf(zones, k, 1) = ZoneIndexOf(zones, k + 1, 1)
                  /\ VerticalGap(walk[k], walk[k + 1]) >= 15
           /\ \E k \in 1..2 :
                  /\ ZoneIndexOf(zones, k, 1) # ZoneIndexOf(zones, k + 1, 1)
                  /\ VerticalGap(walk[k], walk[k + 1]) < 30

\* two blocks with the same left edge split by a gap of 30 or more
C20_WitnessWideGap ==
    /\ zpc = "done" /\ Len(text_blocks) = 2 /\ Len(zones) = 2
    /\ text_blocks[1].x0 = text_blocks[2].x0
    /\ VerticalGap(text_blocks[1], text_blocks[2]) >= 30

\* a pair joined by rule (a) whose left edges are too far apart for rule (b)
C20_WitnessOverlap ==
    /\ zpc = "done" /\ Len(text_blocks) = 2 /\ Len(zones) = 1
    /\ 100 * Abs(text_blocks[1].x0 - text_blocks[2].x0) >= 15 * page_width

-----------------------------------------------------------------------------
(* Quality scores of the tables of the pipeline.                            *)

\* the tables of the running pipeline call and of every page record
TablesSeen ==
    {tables[j] : j \in DOMAIN tables}
    \cup UNION {{pages_data[i].tables[j] : j \in DOMAIN pages_data[i].tables} :
                   i \in DOMAIN pages_data}

FromPdfplumber(t) == StrategyRank(t.method) \in {1, 2, 3}

FromCamelot(t) == StrategyRank(t.method) \in {4, 5}

\* C21 as stated: the quality of a pdfplumber or camelot table is the accuracy
\* the backend reported for it, and the quality of a manual table is 70.
C21_AsStated ==
    \A t \in TablesSeen :
        /\ (FromPdfplumber(t) \/ FromCamelot(t)) => 10 * t.quality \in CamelotAccuracies
        /\ t.method = "manual_structure" => t.quality = 70

\* C21: the quality of a pdfplumber table is the fixed value 90, the quality
\* of a camelot table is the integer part of the accuracy camelot reported,
\* and the quality of a manual table is the fixed value 70.
C21_QualityBySource ==
    \A t \in TablesSeen :
        /\ FromPdfplumber(t) => t.quality = 90
        /\ FromCamelot(t) =>
               \E a \in CamelotAccuracies :
                   10 * t.quality <= a /\ a < 10 * (t.quality + 1)
        /\ t.method = "manual_structure" => t.quality = 70

\* a document whose two page records hold a camelot table of accuracy 87.5
\* and a manual table
C21_Witness ==
    /\ Len(pages_data) = 2
    /\ \E t \in TablesSeen : FromCamelot(t) /\ t.quality = 87
    /\ \E t \in TablesSeen : t.method = "manual_structure"

C21_WitnessPdfplumber ==
    \E t \in TablesSeen : FromPdfplumber(t) /\ t.quality = 90

-----------------------------------------------------------------------------
(* _detect_tables_by_structure on its own: the bands are kept, so that the  *)
(* tables can be compared with the runs of bands they came from.            *)

MaxRunBands == 7

\* band b holds sizes[b] items; the text of an item names its band and column
BandsOfSizes(sizes) == [b \in DOMAIN sizes |-> [i \in 1..sizes[b] |-> <<b, i>>]]

InitManual ==
    /\ \E sizes \in SeqsUpTo(BandSizes, MaxRunBands) : lines_dict = BandsOfSizes(sizes)
    /\ structure_tables = <<>>
    /\ mpc = "input"
    /\ IdleZones /\ IdleClassify /\ IdleValidate /\ IdleExtract
    /\ IdlePureExcept("manual")

DetectTablesByStructureCall ==
    /\ mpc = "input"
    /\ structure_tables' = DetectTablesByStructure(lines_dict)
    /\ mpc' = "done"
    /\ UNCHANGED lines_dict
    /\ UnchangedExcept("manual")

NextManual == DetectTablesByStructureCall

SpecManual == InitManual /\ [][NextManual]_vars

Qualifies(b) == Len(lines_dict[b]) >= 3

\* the maximal runs of at least 3 consecutive qualifying bands, as <<first, last>>
MaximalRuns ==
    {r \in (DOMAIN lines_dict) \X (DOMAIN lines_dict) :
        /\ r[2] - r[1] + 1 >= 3
        /\ \A b \in r[1]..r[2] : Qualifies(b)
        /\ (r[1] = 1 \/ ~ Qualifies(r[1] - 1))
        /\ (r[2] = Len(lines_dict) \/ ~ Qualifies(r[2] + 1))}

\* the k-th run from the top of the page
RunNumber(k) ==
    CHOOSE r \in MaximalRuns : Cardinality({q \in MaximalRuns : q[1] < r[1]}) = k - 1

RunItemCount(r) == SumLen(SubSeq(lines_dict, r[1], r[2]))

RunLength(r) == r[2] - r[1] + 1

\* sum / count rounded to the nearest integer
RoundedAverage(r) == (2 * RunItemCount(r) + RunLength(r)) \div (2 * RunLength(r))

\* C22: each maximal run of at least 3 consecutive bands of at least 3 items
\* gives one table; its header is taken from the first band of the run, its
\* column count is the average item count of the run's bands rounded to the
\* nearest integer, and every row is as long as the header.
C22_AsStated ==
    mpc = "done" =>
        /\ Len(structure_tables) = Cardinality(MaximalRuns)
        /\ \A k \in DOMAIN structure_tables :
               LET t == structure_tables[k]
                   r == RunNumber(k)
               IN  /\ t.headers = Take(lines_dict[r[1]], Len(t.headers))
                   /\ t.columns = RoundedAverage(r)
                   /\ \A i \in DOMAIN t.rows : Len(t.rows[i]) = Len(t.headers)

\* what the call does give: one table per maximal run, in page order, the
\* header a prefix of the run's first band, one row per further band, and
\* no header or row longer than the average item count cut to an integer
C22_RunsGiveTables ==
    mpc = "done" =>
        /\ Len(structure_tables) = Cardinality(MaximalRuns)
        /\ \A k \in DOMAIN structure_tables :
               LET t == structure_tables[k]
                   r == RunNumber(k)
                   cut == RunItemCount(r) \div RunLength(r)
               IN  /\ t.headers = Take(lines_dict[r[1]], cut)
                   /\ t.columns = Len(t.headers)
                   /\ Len(t.rows) = RunLength(r) - 1
                   /\ \A i \in DOMAIN t.rows :
                          /\ Len(t.rows[i]) <= cut
                          /\ Len(t.rows[i]) >= Len(t.headers)

\* two runs on one page
C22_WitnessTwoRuns == mpc = "done" /\ Len(structure_tables) = 2

\* a run whose first band is shorter than the cut average
C22_WitnessLongRow ==
    /\ mpc = "done" /\ Len(structure_tables) = 1
    /\ \E i \in DOMAIN structure_tables[1].rows :
           Len(structure_tables[1].rows[i]) > Len(structure_tables[1].headers)

-----------------------------------------------------------------------------
(* detect_grid_system on its own: columns and rows by clustering.           *)

MaxGridBlocks == 4

GridX0s == {0, 100}

GridY0s == {0, 4, 8, 20, 40}

GridBlocks == {[x0 |-> x, y0 |-> y, x1 |-> x + 40, y1 |-> y + 10] : x \in GridX0s, y \in GridY0s}

InitGrid ==
    /\ grid_blocks \in SeqsUpTo(GridBlocks, MaxGridBlocks)
    /\ grid_system = NoValue
    /\ gpc = "input"
    /\ IdleZones /\ IdleClassify /\ IdleValidate /\ IdleExtract
    /\ IdlePureExcept("grid")

DetectGridSystemCall ==
    /\ gpc = "input"
    /\ grid_system' = DetectGridSystem(grid_blocks)
    /\ gpc' = "done"
    /\ UNCHANGED grid_blocks
    /\ UnchangedExcept("grid")

NextGrid == DetectGridSystemCall

SpecGrid == InitGrid /\ [][NextGrid]_vars

XPositions == [i \in DOMAIN grid_blocks |-> grid_blocks[i].x0]

YPositions == [i \in DOMAIN grid_blocks |-> grid_blocks[i].y0]

\* the clusters of a list of positions when a position joins the current
\* cluster exactly if it is within the tolerance of the cluster's running average
ClustersByAverage(positions) ==
    IF positions = <<>> THEN <<>>
    ELSE LET sorted_pos == SortedPositions(positions)
         IN  ClusterLoopAverage(sorted_pos, 2, <<>>, <<sorted_pos[1]>>)

GridFlag == grid_system.grid_detected <=> (Len(grid_system.columns) > 1 \/ Len(grid_system.rows) > 3)

\* C23 as stated: a position joins the current cluster exactly when it is
\* within the tolerance of the cluster's running average.
C23_AsStated ==
    gpc = "done" =>
        /\ grid_system.columns = ClustersByAverage(XPositions)
        /\ grid_system.rows = ClustersByAverage(YPositions)
        /\ GridFlag

\* the cluster of the k-th position in ascending order, when a cluster ends
\* at every step of more than 5 between neighbours
ClusterByGaps(sorted_pos, k) ==
    1 + Cardinality({j \in 1..(k - 1) : sorted_pos[j + 1] - sorted_pos[j] > 5})

\* the clusters of a list of positions read off the gaps between neighbours
ClustersByGaps(positions) ==
    LET sorted_pos == SortedPositions(positions)
        count == IF positions = <<>> THEN 0 ELSE ClusterByGaps(sorted_pos, Len(sorted_pos))
        members(c) == SelectSeq([k \in DOMAIN sorted_pos |-> <<k, sorted_pos[k]>>],
                                LAMBDA m : ClusterByGaps(sorted_pos, m[1]) = c)
    IN  [c \in 1..count |->
            [num |-> SumSeq([k \in DOMAIN members(c) |-> members(c)[k][2]]),
             den |-> Len(members(c))]]

\* C23: the positions are taken in ascending order and a position joins the
\* current cluster exactly when it is within 5 of the cluster's last member
\* (the position just before it); the value of a cluster is the mean of its
\* members; the grid is flagged exactly when there is more than one x-cluster
\* or more than three y-clusters.
C23_ClustersByLastMember ==
    gpc = "done" =>
        /\ grid_system.columns = ClustersByGaps(XPositions)
        /\ grid_system.rows = ClustersByGaps(YPositions)
        /\ GridFlag

\* rows 0, 4, 8 chained into one cluster of mean 4 beside a second cluster
C23_Witness ==
    /\ gpc = "done" /\ Len(grid_blocks) = 4
    /\ Len(grid_system.rows) = 2
    /\ grid_system.rows[1] = [num |-> 12, den |-> 3]
    /\ grid_system.rows # ClustersByAverage(YPositions)

\* one column and four rows: flagged by the rows alone
C23_WitnessRows ==
    /\ gpc = "done" /\ Len(grid_system.columns) = 1 /\ Len(grid_system.rows) = 4 /\ grid_system.grid_detected

-----------------------------------------------------------------------------
(* analyze_document_structure: totals, histogram, average, archetype.       *)

MaxDocPages == 2

MaxPageZones == 2

DocZoneTypes == {"title", "paragraph"}

\* a page record by what the analysis reads of it: the types of its zones,
\* and its tables and images by their number
DocPageRecords ==
    {[zones |-> zs, tables |-> [i \in 1..t |-> "table"], images |-> [i \in 1..m |-> "image"]] :
        zs \in SeqsUpTo(DocZoneTypes, MaxPageZones), t \in 0..1, m \in 0..1}

\* all_zones = page['zones'] in place of all_zones.extend(page['zones'])
ExtendAllLastOnly(pages, field) ==
    IF pages = <<>> THEN <<>> ELSE pages[Len(pages)][field]

\* the lists built by the loop of lines 1020-1024
RECURSIVE ExtendAll(_, _)
ExtendAll(pages, field) ==
    IF pages = <<>> THEN <<>> ELSE pages[1][field] \o ExtendAll(Tail(pages), field)

\* Counter(zone_types)[t]
CountOf(zone_types, t) == Cardinality({i \in DOMAIN zone_types : zone_types[i] = t})

\* dict(Counter(zone_types)): a key for every type that occurs
CounterDict(zone_types) ==
    [t \in {zone_types[i] : i \in DOMAIN zone_types} |-> CountOf(zone_types, t)]

\* type_counts.get(key, 0) for the keys _infer_document_type reads
TypeCountsOf(zone_types) ==
    [paragraph |-> CountOf(zone_types, "paragraph"), title |-> CountOf(zone_types, "title"),
     list |-> CountOf(zone_types, "list"), header |-> CountOf(zone_types, "header")]

AnalyzeDocumentStructure(pages) ==
    LET total_pages_ == Len(pages)
        all_zones  == ExtendAll(pages, "zones")
        all_tables == ExtendAll(pages, "tables")
        all_images == ExtendAll(pages, "images")
        zone_types == all_zones
    IN  [total_pages |-> total_pages_,
         total_zones |-> Len(all_zones),
         total_tables |-> Len(all_tables),
         total_images |-> Len(all_images),
         zone_type_distribution |-> CounterDict(zone_types),
         avg_zones_per_page |-> IF total_pages_ > 0
                                THEN [num |-> Len(all_zones), den |-> total_pages_]
                                ELSE [num |-> 0, den |-> 1],
         has_tables |-> Len(all_tables) > 0,
         has_images |-> Len(all_images) > 0,
         document_type |-> InferDocumentType(TypeCountsOf(zone_types),
                                             Len(all_tables), Len(all_images))]

InitStructure ==
    /\ doc_pages \in SeqsUpTo(DocPageRecords, MaxDocPages)
    /\ structure = NoValue
    /\ spc = "input"
    /\ IdleZones /\ IdleClassify /\ IdleValidate /\ IdleExtract
    /\ IdlePureExcept("structure")

AnalyzeDocumentStructureCall ==
    /\ spc = "input"
    /\ structure' = AnalyzeDocumentStructure(doc_pages)
    /\ spc' = "done"
    /\ UNCHANGED doc_pages
    /\ UnchangedExcept("structure")

NextStructure == AnalyzeDocumentStructureCall

SpecStructure == InitStructure /\ [][NextStructure]_vars

\* the sum over the pages of the length of one of their lists
RECURSIVE PageSum(_, _)
PageSum(field, n) ==
    IF n = 0 THEN 0 ELSE Len(doc_pages[n][field]) + PageSum(field, n - 1)

RECURSIVE HistogramSum(_, _)
HistogramSum(hist, keys) ==
    IF keys = {} THEN 0
    ELSE LET k == CHOOSE x \in keys : TRUE
         IN  hist[k] + HistogramSum(hist, keys \ {k})

\* C24: the totals of zones, tables and images are the sums over the pages,
\* the counts of the zone-type histogram add up to the total of zones, the
\* average zones per page is that total divided by the number of pages (0 for
\* no page), and a document of no page is a generic_document.
C24_StructureTotals ==
    spc = "done" =>
        /\ structure.total_zones = PageSum("zones", Len(doc_pages))
        /\ structure.total_tables = PageSum("tables", Len(doc_pages))
        /\ structure.total_images = PageSum("images", Len(doc_pages))
        /\ HistogramSum(structure.zone_type_distribution,
                        DOMAIN structure.zone_type_distribution) = structure.total_zones
        /\ \A t \in DOMAIN structure.zone_type_distribution :
               structure.zone_type_distribution[t] =
                   Cardinality({<<i, j>> \in (DOMAIN doc_pages) \X (1..MaxPageZones) :
                                   /\ j <= Len(doc_pages[i].zones)
                                   /\ doc_pages[i].zones[j] = t})
        /\ structure.avg_zones_per_page.num * Max2(Len(doc_pages), 1)
               = structure.total_zones * structure.avg_zones_per_page.den
        /\ doc_pages = <<>> =>
               /\ structure.avg_zones_per_page.num = 0
               /\ structure.document_type = "generic_document"

\* two pages with three zones of two types, a table and an image between them
C24_Witness ==
    /\ spc = "done" /\ Len(doc_pages) = 2
    /\ Len(doc_pages[1].zones) = 1
    /\ structure.total_zones = 3 /\ structure.total_tables = 1
    /\ structure.total_images = 1
    /\ Cardinality(DOMAIN structure.zone_type_distribution) = 2

\* the document of no page
C24_WitnessEmpty ==
    spc = "done" /\ doc_pages = <<>> /\ structure.document_type = "generic_document"

-----------------------------------------------------------------------------
(* One method per page.                                                     *)

MethodsOf(tabs) == {tabs[j].method : j \in DOMAIN tabs}

MethodIdentifiers == {StrategyOrder[k] : k \in DOMAIN StrategyOrder}

\* C25: the tables of one page, in the running pipeline call and in every
\* page record, all carry the same method identifier, one of the six of
\* the pipeline, also when a backend raised after it had accepted tables.
C25_OneMethodPerPage ==
    /\ Cardinality(MethodsOf(tables)) <= 1
    /\ MethodsOf(tables) \subseteq MethodIdentifiers
    /\ \A i \in DOMAIN pages_data :
           /\ Cardinality(MethodsOf(pages_data[i].tables)) <= 1
           /\ MethodsOf(pages_data[i].tables) \subseteq MethodIdentifiers

\* a page record whose table was accepted by a camelot flavor that raised on
\* its next table, after a page record with two tables
C25_Witness ==
    /\ Len(pages_data) = 1 /\ Len(pages_data[1].tables) = 2
    /\ epc = "finish"
    /\ \E k \in DOMAIN attempts :
           /\ attempts[k].raised /\ attempts[k].accepted > 0
           /\ FromCamelot([method |-> attempts[k].method])
    /\ Len(tables) = 1

\* a pdfplumber variant raised after it had accepted a table; the pipeline
\* went straight to the end with that table
C25_WitnessPdfplumber ==
    /\ epc = "finish" /\ Len(tables) = 1
    /\ \E k \in DOMAIN attempts :
           /\ attempts[k].raised /\ attempts[k].accepted > 0
           /\ attempts[k].method = "pdfplumber_lines_strict"

-----------------------------------------------------------------------------
(* Validating a validated table again.                                      *)

\* the grid made of the returned header followed by the returned rows
GridOfValidated(v) == <<v.headers>> \o v.rows

\* C26: when the validation of a raw grid succeeds, validating the grid made
\* of the returned header and rows succeeds too and returns the same header
\* and the same rows; a validated table has no fully blank body row.
C26_ValidationIdempotent ==
    (vpc = "done" /\ validated # NoValue) =>
        /\ ValidateTable(GridOfValidated(validated)) = validated
        /\ \A k \in DOMAIN validated.rows : AnyCell(validated.rows[k])

\* the second validation gives back the table whenever the table has no
\* blank body row
C26_IdempotentWithoutBlankRow ==
    (vpc = "done" /\ validated # NoValue
        /\ \A k \in DOMAIN validated.rows : AnyCell(validated.rows[k])) =>
        ValidateTable(GridOfValidated(validated)) = validated

-----------------------------------------------------------------------------
(* The GUI (main.py): file selection, the two guarded requests and their    *)
(* worker threads, one step per statement group of a worker.                *)

PdfFiles == {"a.pdf", "b.pdf"}

MaxRequests == 3

\* cached: the worker took pages_data as it found it (line 489)
Worker(kind, pc, requested) ==
    [kind |-> kind, pc |-> pc, requested |-> requested, cached |-> FALSE]

RemoveAt(s, i) == SubSeq(s, 1, i - 1) \o SubSeq(s, i + 1, Len(s))

InitGui ==
    /\ pdf_file = "none"
    /\ app_pages_data = "unset"
    /\ is_processing = FALSE
    /\ workers = <<>>
    /\ html_files = <<>>
    /\ started = 0
    /\ IdleZones /\ IdleClassify /\ IdleValidate /\ IdleExtract
    /\ IdlePureExcept("gui")

\* select_pdf with a file chosen in the dialog: pdf_file is assigned, and
\* pages_data is left as it is
SelectPdf ==
    /\ \E f \in PdfFiles :
           /\ f # pdf_file
           /\ pdf_file' = f
    /\ UNCHANGED <<app_pages_data, is_processing, workers, html_files, started>>
    /\ UnchangedExcept("gui")

\* generate_html_only past its two early returns
GenerateHtmlOnly ==
    /\ pdf_file # "none"
    /\ ~ is_processing
    /\ started < MaxRequests
    /\ is_processing' = TRUE
    /\ workers' = Append(workers, Worker("html", "extract", pdf_file))
    /\ started' = started + 1
    /\ UNCHANGED <<pdf_file, app_pages_data, html_files>>
    /\ UnchangedExcept("gui")

\* start_conversion past its early returns and the confirmation dialog
StartConversion ==
    /\ ~ is_processing
    /\ pdf_file # "none"
    /\ started < MaxRequests
    /\ is_processing' = TRUE
    /\ workers' = Append(workers, Worker("convert", "convert", pdf_file))
    /\ started' = started + 1
    /\ UNCHANGED <<pdf_file, app_pages_data, html_files>>
    /\ UnchangedExcept("gui")

SetPc(i, pc) == [workers EXCEPT ![i].pc = pc]

\* _generate_html_thread, lines 465-489: extract unless pages_data is cached
HtmlExtract ==
    /\ \E i \in DOMAIN workers :
           /\ workers[i].kind = "html" /\ workers[i].pc = "extract"
           /\ IF app_pages_data \in {"unset", "empty"}
              THEN \/ /\ app_pages_data' = pdf_file
                      /\ workers' = SetPc(i, "generate")
                   \/ /\ app_pages_data' = "empty"
                      /\ workers' = SetPc(i, "finally")
                   \/ /\ UNCHANGED app_pages_data
                      /\ workers' = SetPc(i, "finally")
              ELSE /\ UNCHANGED app_pages_data
                   /\ workers' = [workers EXCEPT ![i].pc = "generate", ![i].cached = TRUE]
    /\ UNCHANGED <<pdf_file, is_processing, html_files, started>>
    /\ UnchangedExcept("gui")

\* lines 491-584: the HTML is generated from pages_data and written next to
\* the selected file, or an exception is raised on the way
HtmlGenerate ==
    /\ \E i \in DOMAIN workers :
           /\ workers[i].kind = "html" /\ workers[i].pc = "generate"
           /\ workers' = SetPc(i, "finally")
           /\ \/ html_files' = Append(html_files,
                                   [name |-> pdf_file, content |-> app_pages_data,
                                    requested |-> workers[i].requested,
                                    cached |-> workers[i].cached])
              \/ UNCHANGED html_files
    /\ UNCHANGED <<pdf_file, app_pages_data, is_processing, started>>
    /\ UnchangedExcept("gui")

\* convert_pdf, lines 662-852: the try block, ended normally or by an exception
ConvertRun ==
    /\ \E i \in DOMAIN workers :
           /\ workers[i].kind = "convert" /\ workers[i].pc = "convert"
           /\ workers' = SetPc(i, "finally")
    /\ UNCHANGED <<pdf_file, app_pages_data, is_processing, html_files, started>>
    /\ UnchangedExcept("gui")

\* the first statement of the finally block of either worker
WorkerFinally ==
    /\ \E i \in DOMAIN workers :
           /\ workers[i].pc = "finally"
           /\ workers' = SetPc(i, "tail")
    /\ is_processing' = FALSE
    /\ UNCHANGED <<pdf_file, app_pages_data, html_files, started>>
    /\ UnchangedExcept("gui")

\* the root.after calls that end the finally block; the thread ends
WorkerEnd ==
    /\ \E i \in DOMAIN workers :
           /\ workers[i].pc = "tail"
           /\ workers' = RemoveAt(workers, i)
    /\ UNCHANGED <<pdf_file, app_pages_data, is_processing, html_files, started>>
    /\ UnchangedExcept("gui")

NextGui ==
    \/ SelectPdf
    \/ GenerateHtmlOnly
    \/ StartConversion
    \/ HtmlExtract
    \/ HtmlGenerate
    \/ ConvertRun
    \/ WorkerFinally
    \/ WorkerEnd

SpecGui == InitGui /\ [][NextGui]_vars

\* C27: no HTML file is built from cached pages of another file than the one
\* selected when generate_html_only was called: after select_pdf picked a
\* different file, the next request extracts that file.
C27_HtmlFromSelectedPdf ==
    \A k \in DOMAIN html_files :
        html_files[k].cached => html_files[k].content = html_files[k].requested

\* C28: at most one conversion or HTML-generation worker is alive at a time.
C28_AtMostOneWorker == Len(workers) <= 1

\* what the flag does give: at most one worker is before the reset of its
\* finally block, the flag is set while one is, and a worker that raised
\* still resets it
C28_OneWorkerBeforeReset ==
    /\ Cardinality({i \in DOMAIN workers : workers[i].pc # "tail"}) <= 1
    /\ (\E i \in DOMAIN workers : workers[i].pc # "tail") <=> is_processing

-----------------------------------------------------------------------------
(* BatchConverter (batch_converter.py): convert_batch calls on one object.  *)

BatchFiles == {"a.pdf", "b.pdf"}

MaxBatchFiles == 2

MaxCalls == 2

\* line 98: only total is assigned at the start of a call
StatsAtCall(s, n) == [s EXCEPT !.total = n]

\* __init__, lines 20-31; some outputs may exist before the first call
InitBatch ==
    /\ stats = [total |-> 0, success |-> 0, failed |-> 0, skipped |-> 0]
    /\ pdf_files = <<>>
    /\ overwrite = FALSE
    /\ batch_index = 0
    /\ outputs \in SUBSET BatchFiles
    /\ calls = 0
    /\ bpc = "ready"
    /\ IdleZones /\ IdleClassify /\ IdleValidate /\ IdleExtract
    /\ IdlePureExcept("batch")

\* lines 94-103: a call begins
ConvertBatchBegin ==
    /\ bpc = "ready" /\ calls < MaxCalls
    /\ \E files \in SeqsUpTo(BatchFiles, MaxBatchFiles), ow \in BOOLEAN :
           /\ pdf_files' = files
           /\ overwrite' = ow
           /\ stats' = StatsAtCall(stats, Len(files))
    /\ batch_index' = 0
    /\ bpc' = "loop"
    /\ UNCHANGED <<outputs, calls>>
    /\ UnchangedExcept("batch")

\* lines 105-117: the output exists and overwrite is off
SkipFile ==
    /\ bpc = "loop" /\ batch_index < Len(pdf_files)
    /\ pdf_files[batch_index + 1] \in outputs /\ ~ overwrite
    /\ stats' = [stats EXCEPT !.skipped = @ + 1]
    /\ batch_index' = batch_index + 1
    /\ UNCHANGED <<pdf_files, overwrite, outputs, calls, bpc>>
    /\ UnchangedExcept("batch")

\* lines 119-123 with convert_file: True with the output written, or False
\* after no data or an exception caught at line 90
ConvertFile ==
    /\ bpc = "loop" /\ batch_index < Len(pdf_files)
    /\ ~ (pdf_files[batch_index + 1] \in outputs /\ ~ overwrite)
    /\ \/ /\ stats' = [stats EXCEPT !.success = @ + 1]
          /\ outputs' = outputs \cup {pdf_files[batch_index + 1]}
       \/ /\ stats' = [stats EXCEPT !.failed = @ + 1]
          /\ UNCHANGED outputs
    /\ batch_index' = batch_index + 1
    /\ UNCHANGED <<pdf_files, overwrite, calls, bpc>>
    /\ UnchangedExcept("batch")

\* lines 127-128: the loop is over
ConvertBatchEnd ==
    /\ bpc = "loop" /\ batch_index = Len(pdf_files)
    /\ calls' = calls + 1
    /\ bpc' = "ready"
    /\ UNCHANGED <<stats, pdf_files, overwrite, batch_index, outputs>>
    /\ UnchangedExcept("batch")

NextBatch == ConvertBatchBegin \/ SkipFile \/ ConvertFile \/ ConvertBatchEnd

SpecBatch == InitBatch /\ [][NextBatch]_vars

Counted == stats.success + stats.failed + stats.skipped

\* C29: after every completed convert_batch call, success + failed + skipped
\* equals total, the number of files passed to that call.
C29_CountersAddUpToTotal ==
    (bpc = "ready" /\ calls > 0) =>
        /\ stats.total = Len(pdf_files)
        /\ Counted = stats.total

\* what holds: after the first call on a converter the counters add up to
\* total, and inside a call each file handled so far is counted once more
C29_FirstCallAddsUp ==
    /\ (bpc = "ready" /\ calls = 1) => Counted = stats.total
    /\ (bpc = "loop" /\ calls = 0) => Counted = batch_index

-----------------------------------------------------------------------------
(* ConfigManager (config_manager.py): the conversion history.  The reads    *)
(* and writes of history.json succeed.                                      *)

MaxSaves == 53

history_limit == 50

\* history[:50] in place of history[-50:]
KeepFirst(history) ==
    IF Len(history) > history_limit THEN SubSeq(history, 1, history_limit) ELSE history

\* lines 59-61: if len(history) > 50: history = history[-50:]
KeepLast(history) ==
    IF Len(history) > history_limit
    THEN SubSeq(history, Len(history) - history_limit + 1, Len(history))
    ELSE history

\* __init__ and _init_files on a fresh configuration directory
InitHistory ==
    /\ history_file = <<>>
    /\ saved = 0
    /\ cleared_at = 0
    /\ hispc = "ready"
    /\ IdleZones /\ IdleClassify /\ IdleValidate /\ IdleExtract
    /\ IdlePureExcept("history")

\* save_to_history: read, append, keep the last 50, write
SaveToHistory ==
    /\ hispc = "ready" /\ saved < MaxSaves
    /\ LET history == Append(history_file, saved + 1)
       IN  history_file' = KeepLast(history)
    /\ saved' = saved + 1
    /\ UNCHANGED <<cleared_at, hispc>>
    /\ UnchangedExcept("history")

\* clear_history on a history that holds entries
ClearHistory ==
    /\ hispc = "ready" /\ history_file # <<>>
    /\ history_file' = <<>>
    /\ cleared_at' = saved
    /\ UNCHANGED <<saved, hispc>>
    /\ UnchangedExcept("history")

NextHistory == SaveToHistory \/ ClearHistory

SpecHistory == InitHistory /\ [][NextHistory]_vars

====
